---------------------------- MODULE Spec2Model ----------------------------
(***************************************************************************)
(* Model of the network-configuration subsystem of incus-osd:              *)
(*   - the systemd-networkd artifact generator (generateLinkFileContents,  *)
(*     generateNetdevFileContents, generateNetworkFileContents, ...),      *)
(*   - ApplyNetworkConfiguration and waitForNetworkRoutable,               *)
(*   - the REST handler Server.apiNetwork10 that drives them,              *)
(* and of the installer, Install.DoInstall.                                *)
(*                                                                         *)
(* Text is modelled as follows: a file's contents is the sequence of its   *)
(* lines (every piece the code concatenates ends in "\n"), a line is a     *)
(* string, and a hardware address is a sequence of one-character strings   *)
(* so that strings.ReplaceAll / strings.ToLower are computed.              *)
(* Time is counted in milliseconds.                                        *)
(***************************************************************************)
EXTENDS Integers, Sequences, FiniteSets, TLC

(***************************************************************************)
(* Text helpers                                                            *)
(***************************************************************************)

UpperChars == <<"A","B","C","D","E","F","G","H","I","J","K","L","M",
                "N","O","P","Q","R","S","T","U","V","W","X","Y","Z">>

LowerChars == <<"a","b","c","d","e","f","g","h","i","j","k","l","m",
                "n","o","p","q","r","s","t","u","v","w","x","y","z">>

\* strings.ToLower on one character.
ToLowerChar(c) ==
    IF \E k \in 1..26 : UpperChars[k] = c
    THEN LowerChars[CHOOSE k \in 1..26 : UpperChars[k] = c]
    ELSE c

\* The string made of the characters of a character sequence.
RECURSIVE StringOf(_)
StringOf(cs) ==
    IF cs = <<>> THEN "" ELSE Head(cs) \o StringOf(Tail(cs))

\* strings.ReplaceAll(s, ":", "") on a character sequence.
ReplaceAllColons(cs) == SelectSeq(cs, LAMBDA c : c /= ":")

\* strings.ToLower on a character sequence.
ToLower(cs) == [k \in 1..Len(cs) |-> ToLowerChar(cs[k])]

\* Faulty variant: the colons are kept.
StrippedHwaddrKeepingColons(hwaddr) == StringOf(ToLower(hwaddr))

\* strings.ToLower(strings.ReplaceAll(hwaddr, ":", "")), as a string.
StrippedHwaddr(hwaddr) == StringOf(ToLower(ReplaceAllColons(hwaddr)))

\* strings.Join(elems, " ").
RECURSIVE JoinSpace(_)
JoinSpace(elems) ==
    IF elems = <<>> THEN ""
    ELSE IF Len(elems) = 1 THEN elems[1]
    ELSE elems[1] \o " " \o JoinSpace(Tail(elems))

\* strconv.FormatBool.
FormatBool(b) == IF b THEN "true" ELSE "false"

\* The concatenation of a sequence of line sequences.
RECURSIVE Flatten(_)
Flatten(ss) ==
    IF ss = <<>> THEN <<>> ELSE Head(ss) \o Flatten(Tail(ss))

\* The networkdConfigFile struct.
ConfigFile(name, contents) == [Name |-> name, Contents |-> contents]

\* fmt.Sprintf("MTUBytes=%d", mtu), or the empty string for no MTU.
MtuString(mtu) == IF mtu /= 0 THEN "MTUBytes=" \o ToString(mtu) ELSE ""

(***************************************************************************)
(* processAddresses, processRoutes, generateNetworkSectionContents,        *)
(* generateTimesyncContents                                                *)
(***************************************************************************)

ReservedTokens == {"dhcp4", "dhcp6", "slaac"}

HasToken(addresses, tok) == \E k \in 1..Len(addresses) : addresses[k] = tok

\* Faulty variant: the test for dhcp4 alone comes before the test for both.
processAddressesDhcp4First(addresses) ==
    LET linkLocal ==
            IF Len(addresses) /= 0
            THEN <<"LinkLocalAddressing=ipv6">>
            ELSE <<"LinkLocalAddressing=no", "ConfigureWithoutCarrier=yes">>
        static == SelectSeq(addresses, LAMBDA a : a \notin ReservedTokens)
        statics == [k \in 1..Len(static) |-> "Address=" \o static[k]]
        hasDHCP4 == HasToken(addresses, "dhcp4")
        hasDHCP6 == HasToken(addresses, "dhcp6")
        ra == IF HasToken(addresses, "slaac") THEN <<"IPv6AcceptRA=true">>
              ELSE <<"IPv6AcceptRA=false">>
        dhcp == IF hasDHCP4 THEN <<"DHCP=ipv4">>
                ELSE IF hasDHCP4 /\ hasDHCP6 THEN <<"DHCP=yes">>
                ELSE IF hasDHCP6 THEN <<"DHCP=ipv6">>
                ELSE <<>>
    IN  linkLocal \o statics \o ra \o dhcp

\* Faulty variant: the lines for an empty address list are added without
\* an else.
processAddressesNoElse(addresses) ==
    LET linkLocal ==
            (IF Len(addresses) /= 0 THEN <<"LinkLocalAddressing=ipv6">> ELSE <<>>)
            \o <<"LinkLocalAddressing=no", "ConfigureWithoutCarrier=yes">>
        static == SelectSeq(addresses, LAMBDA a : a \notin ReservedTokens)
        statics == [k \in 1..Len(static) |-> "Address=" \o static[k]]
        hasDHCP4 == HasToken(addresses, "dhcp4")
        hasDHCP6 == HasToken(addresses, "dhcp6")
        ra == IF HasToken(addresses, "slaac") THEN <<"IPv6AcceptRA=true">>
              ELSE <<"IPv6AcceptRA=false">>
        dhcp == IF hasDHCP4 /\ hasDHCP6 THEN <<"DHCP=yes">>
                ELSE IF hasDHCP4 THEN <<"DHCP=ipv4">>
                ELSE IF hasDHCP6 THEN <<"DHCP=ipv6">>
                ELSE <<>>
    IN  linkLocal \o statics \o ra \o dhcp

processAddresses(addresses) ==
    LET linkLocal ==
            IF Len(addresses) /= 0
            THEN <<"LinkLocalAddressing=ipv6">>
            ELSE <<"LinkLocalAddressing=no", "ConfigureWithoutCarrier=yes">>
        static == SelectSeq(addresses, LAMBDA a : a \notin ReservedTokens)
        statics == [k \in 1..Len(static) |-> "Address=" \o static[k]]
        hasDHCP4 == HasToken(addresses, "dhcp4")
        hasDHCP6 == HasToken(addresses, "dhcp6")
        acceptIPv6RA == HasToken(addresses, "slaac")
        ra == IF acceptIPv6RA THEN <<"IPv6AcceptRA=true">>
              ELSE <<"IPv6AcceptRA=false">>
        dhcp == IF hasDHCP4 /\ hasDHCP6 THEN <<"DHCP=yes">>
                ELSE IF hasDHCP4 THEN <<"DHCP=ipv4">>
                ELSE IF hasDHCP6 THEN <<"DHCP=ipv6">>
                ELSE <<>>
    IN  linkLocal \o statics \o ra \o dhcp

RouteLines(route) ==
    LET gw == IF route.Via = "dhcp4" THEN "Gateway=_dhcp4"
              ELSE IF route.Via = "slaac" THEN "Gateway=_ipv6ra"
              ELSE "Gateway=" \o route.Via
    IN  <<gw, "Destination=" \o route.To>>

\* Faulty variant: a [Route] header before every route.
processRoutesHeaderPerRoute(routes) ==
    Flatten([k \in 1..Len(routes) |-> <<"", "[Route]">> \o RouteLines(routes[k])])

processRoutes(routes) ==
    <<"", "[Route]">> \o Flatten([k \in 1..Len(routes) |-> RouteLines(routes[k])])

\* dns and ntp are optional: <<>> is the nil pointer, <<v>> points to v.
generateNetworkSectionContents(dns, ntp) ==
    LET domains ==
            IF dns /= <<>> /\ Len(dns[1].SearchDomains) > 0
            THEN <<"Domains=" \o JoinSpace(dns[1].SearchDomains)>>
            ELSE <<>>
        nameservers ==
            IF dns /= <<>>
            THEN [k \in 1..Len(dns[1].Nameservers) |-> "DNS=" \o dns[1].Nameservers[k]]
            ELSE <<>>
        timeservers ==
            IF ntp /= <<>>
            THEN [k \in 1..Len(ntp[1].Timeservers) |-> "NTP=" \o ntp[1].Timeservers[k]]
            ELSE <<>>
    IN  domains \o nameservers \o timeservers

\* The empty line sequence stands for the empty string "".
generateTimesyncContents(ntp) ==
    IF Len(ntp.Timeservers) = 0 THEN <<>>
    ELSE <<"[Time]", "FallbackNTP=" \o JoinSpace(ntp.Timeservers)>>

(***************************************************************************)
(* generateLinkFileContents                                                *)
(***************************************************************************)

LinkFile(prefix, hwaddr) ==
    ConfigFile(prefix \o "-en" \o StrippedHwaddr(hwaddr) \o ".link",
               << "[Match]",
                  "PermanentMACAddress=" \o StringOf(hwaddr),
                  "",
                  "[Link]",
                  "NamePolicy=",
                  "Name=en" \o StrippedHwaddr(hwaddr) >>)

BondMemberLinkFiles(b) ==
    [k \in 1..Len(b.Members) |-> LinkFile("01", b.Members[k])]

generateLinkFileContents(networkCfg) ==
    [k \in 1..Len(networkCfg.Interfaces) |->
        LinkFile("00", networkCfg.Interfaces[k].Hwaddr)]
    \o Flatten([k \in 1..Len(networkCfg.Bonds) |->
        BondMemberLinkFiles(networkCfg.Bonds[k])])

(***************************************************************************)
(* generateNetdevFileContents                                              *)
(***************************************************************************)

BridgeNetdevFile(prefix, d) ==
    ConfigFile(prefix \o "-br" \o StrippedHwaddr(d.Hwaddr) \o ".netdev",
               << "[NetDev]",
                  "Name=" \o d.Name,
                  "Kind=bridge",
                  "MACAddress=" \o StringOf(d.Hwaddr),
                  MtuString(d.MTU),
                  "",
                  "[Bridge]",
                  "VLANFiltering=true" >>)

BondNetdevFile(b) ==
    ConfigFile("11-bn" \o StrippedHwaddr(b.Hwaddr) \o ".netdev",
               << "[NetDev]",
                  "Name=bn" \o StrippedHwaddr(b.Hwaddr),
                  "Kind=bond",
                  "MACAddress=" \o StringOf(b.Hwaddr),
                  MtuString(b.MTU),
                  "",
                  "[Bond]",
                  "Mode=" \o b.Mode >>)

VlanNetdevFile(v) ==
    ConfigFile("12-vl" \o v.Name \o ".netdev",
               << "[NetDev]",
                  "Name=vl" \o v.Name,
                  "Kind=vlan",
                  MtuString(v.MTU),
                  "",
                  "[VLAN]",
                  "Id=" \o ToString(v.ID) >>)

generateNetdevFileContents(networkCfg) ==
    [k \in 1..Len(networkCfg.Interfaces) |->
        BridgeNetdevFile("10", networkCfg.Interfaces[k])]
    \o Flatten([k \in 1..Len(networkCfg.Bonds) |->
        << BondNetdevFile(networkCfg.Bonds[k]),
           BridgeNetdevFile("11", networkCfg.Bonds[k]) >>])
    \o [k \in 1..Len(networkCfg.VLANs) |-> VlanNetdevFile(networkCfg.VLANs[k])]

(***************************************************************************)
(* generateNetworkFileContents                                             *)
(***************************************************************************)

DhcpSection == <<"[DHCP]", "ClientIdentifier=mac", "RouteMetric=100", "UseMTU=true">>

RoutesSection(routes) == IF Len(routes) > 0 THEN processRoutes(routes) ELSE <<>>

BridgeVlanSection(pvid) ==
    IF pvid /= 0
    THEN <<"", "[BridgeVLAN]", "VLAN=1-4094", "PVID=" \o ToString(pvid)>>
    ELSE <<>>

\* The addressing network file of an interface ("20") or a bond ("21").
DeviceNetworkFile(prefix, d, dns, ntp) ==
    ConfigFile(prefix \o "-" \o d.Name \o ".network",
               <<"[Match]", "Name=" \o d.Name, "">>
               \o DhcpSection
               \o <<"", "[Network]">>
               \o generateNetworkSectionContents(dns, ntp)
               \o processAddresses(d.Addresses)
               \o RoutesSection(d.Routes)
               \o BridgeVlanSection(d.VLAN))

InterfaceLinkNetworkFile(i) ==
    ConfigFile("20-br" \o StrippedHwaddr(i.Hwaddr) \o ".network",
               << "[Match]",
                  "Name=en" \o StrippedHwaddr(i.Hwaddr),
                  "",
                  "[Network]",
                  "Bridge=" \o i.Name,
                  "LLDP=" \o FormatBool(i.LLDP),
                  "EmitLLDP=" \o FormatBool(i.LLDP) >>)

BondBridgeNetworkFile(b) ==
    ConfigFile("21-br" \o StrippedHwaddr(b.Hwaddr) \o ".network",
               << "[Match]",
                  "Name=bn" \o StrippedHwaddr(b.Hwaddr),
                  "",
                  "[Network]",
                  "Bridge=" \o b.Name >>)

\* Faulty variant: the members are numbered from 1 in the file names.
BondMemberNetworkFileFromOne(b, index) ==
    ConfigFile("21-bn" \o StrippedHwaddr(b.Hwaddr) \o "-dev" \o ToString(index + 1)
                   \o ".network",
               << "[Match]",
                  "Name=en" \o StrippedHwaddr(b.Members[index + 1]),
                  "",
                  "[Network]",
                  "Bond=bn" \o StrippedHwaddr(b.Hwaddr),
                  "LLDP=" \o FormatBool(b.LLDP),
                  "EmitLLDP=" \o FormatBool(b.LLDP) >>)

\* index is the Go (0-based) index of the member.
BondMemberNetworkFile(b, index) ==
    ConfigFile("21-bn" \o StrippedHwaddr(b.Hwaddr) \o "-dev" \o ToString(index)
                   \o ".network",
               << "[Match]",
                  "Name=en" \o StrippedHwaddr(b.Members[index + 1]),
                  "",
                  "[Network]",
                  "Bond=bn" \o StrippedHwaddr(b.Hwaddr),
                  "LLDP=" \o FormatBool(b.LLDP),
                  "EmitLLDP=" \o FormatBool(b.LLDP) >>)

VlanNetworkFile(v, dns, ntp) ==
    ConfigFile("22-vl" \o v.Name \o ".network",
               <<"[Match]", "Name=" \o v.Parent, "">>
               \o DhcpSection
               \o <<"", "[Network]", "VLAN=vl" \o v.Name>>
               \o generateNetworkSectionContents(dns, ntp)
               \o processAddresses(v.Addresses)
               \o RoutesSection(v.Routes))

generateNetworkFileContents(networkCfg) ==
    Flatten([k \in 1..Len(networkCfg.Interfaces) |->
        << DeviceNetworkFile("20", networkCfg.Interfaces[k],
                             networkCfg.DNS, networkCfg.NTP),
           InterfaceLinkNetworkFile(networkCfg.Interfaces[k]) >>])
    \o Flatten([k \in 1..Len(networkCfg.Bonds) |->
        << DeviceNetworkFile("21", networkCfg.Bonds[k],
                             networkCfg.DNS, networkCfg.NTP),
           BondBridgeNetworkFile(networkCfg.Bonds[k]) >>
        \o [m \in 1..Len(networkCfg.Bonds[k].Members) |->
               BondMemberNetworkFile(networkCfg.Bonds[k], m - 1)]])
    \o [k \in 1..Len(networkCfg.VLANs) |->
        VlanNetworkFile(networkCfg.VLANs[k], networkCfg.DNS, networkCfg.NTP)]

(***************************************************************************)
(* generateNetworkConfiguration: the effect on the configuration directory *)
(* and on the time-sync file.                                              *)
(***************************************************************************)

\* The files written, in the order of the three loops.
ArtifactFiles(networkCfg) ==
    generateLinkFileContents(networkCfg)
    \o generateNetdevFileContents(networkCfg)
    \o generateNetworkFileContents(networkCfg)

\* A directory is a function from file names to contents.
EmptyDir == [n \in {} |-> <<>>]

\* os.WriteFile(filepath.Join(SystemdNetworkConfigPath, f.Name), f.Contents).
WriteFile(dir, f) ==
    [n \in (DOMAIN dir) \cup {f.Name} |->
        IF n = f.Name THEN f.Contents ELSE dir[n]]

\* The directory after writing the first count files of files, in order.
RECURSIVE WriteFiles(_, _, _)
WriteFiles(dir, files, count) ==
    IF count = 0 THEN dir
    ELSE WriteFile(WriteFiles(dir, files, count - 1), files[count])

\* ntpCfg: generateTimesyncContents when NTP is set, "" otherwise.
NtpCfg(networkCfg) ==
    IF networkCfg.NTP /= <<>> THEN generateTimesyncContents(networkCfg.NTP[1])
    ELSE <<>>

\* The time-sync file after the last part of generateNetworkConfiguration:
\* <<>> is "no file", <<c>> a file of contents c.
TimesyncAfter(networkCfg) ==
    IF networkCfg.NTP /= <<>> /\ NtpCfg(networkCfg) /= <<>>
    THEN <<NtpCfg(networkCfg)>>
    ELSE <<>>

\* The points where generateNetworkConfiguration can return an error:
\* os.RemoveAll, os.Mkdir, the k-th os.WriteFile (as <<"WriteFile", k>>), and
\* the write of the time-sync file when there is one to write.  Of the
\* writes, the first one of each of the three loops is made to fail.
GenerateFailures(networkCfg) ==
    LET links == Len(generateLinkFileContents(networkCfg))
        netdevs == Len(generateNetdevFileContents(networkCfg))
    IN  {<<"RemoveAll", 0>>, <<"Mkdir", 0>>}
        \cup {<<"WriteFile", k>> : k \in {1, links + 1, links + netdevs + 1}
                                            \cap (1..Len(ArtifactFiles(networkCfg)))}
        \cup (IF TimesyncAfter(networkCfg) /= <<>>
              THEN {<<"WriteTimesync", 0>>} ELSE {})

NoFailure == <<"none", 0>>

\* No error is returned, but os.Remove(SystemdTimesyncConfigFile) failed: its
\* error is assigned to _.
RemoveIgnored == <<"none", 1>>

\* The outcomes of the os.Remove of a time-sync file that exists, other than
\* its success.
RemoveOutcomes(host, networkCfg) ==
    IF TimesyncAfter(networkCfg) = <<>> /\ host.timesync /= <<>>
    THEN {RemoveIgnored} ELSE {}

\* The time-sync file a call that returns nil leaves, given the file it
\* found: written when there are timeservers, removed otherwise unless the
\* removal fails.
TimesyncLeft(timesync, networkCfg, removeFails) ==
    IF networkCfg.NTP /= <<>> /\ NtpCfg(networkCfg) /= <<>>
    THEN <<NtpCfg(networkCfg)>>
    ELSE IF removeFails THEN timesync ELSE <<>>

\* Faulty variant: the directory is not removed before the files are written.
generateWithoutRemoveAll(host, networkCfg, failAt) ==
    LET files == ArtifactFiles(networkCfg) IN
    CASE failAt[1] \in {"RemoveAll", "Mkdir"} -> host
      [] failAt[1] = "WriteFile" ->
            [host EXCEPT !.dir = WriteFiles(host.dir, files, failAt[2] - 1)]
      [] failAt[1] = "WriteTimesync" ->
            [host EXCEPT !.dir = WriteFiles(host.dir, files, Len(files))]
      [] OTHER ->
            [dir |-> WriteFiles(host.dir, files, Len(files)),
             dirExists |-> TRUE,
             timesync |-> TimesyncLeft(host.timesync, networkCfg,
                                       failAt = RemoveIgnored)]

\* The host files after generateNetworkConfiguration(networkCfg) that fails at
\* failAt (or not at all): host is [dir, dirExists, timesync].  A failing
\* RemoveAll is modelled as having removed nothing, a failing write of the
\* time-sync file as having written nothing.
generateNetworkConfiguration(host, networkCfg, failAt) ==
    LET files == ArtifactFiles(networkCfg) IN
    CASE failAt[1] = "RemoveAll" -> host
      [] failAt[1] = "Mkdir" ->
            [host EXCEPT !.dir = EmptyDir, !.dirExists = FALSE]
      [] failAt[1] = "WriteFile" ->
            [host EXCEPT !.dir = WriteFiles(EmptyDir, files, failAt[2] - 1),
                         !.dirExists = TRUE]
      [] failAt[1] = "WriteTimesync" ->
            [host EXCEPT !.dir = WriteFiles(EmptyDir, files, Len(files)),
                         !.dirExists = TRUE]
      [] OTHER ->
            [dir |-> WriteFiles(EmptyDir, files, Len(files)),
             dirExists |-> TRUE,
             timesync |-> TimesyncLeft(host.timesync, networkCfg,
                                       failAt = RemoveIgnored)]

(***************************************************************************)
(* The configurations the requests are drawn from                          *)
(***************************************************************************)

HwEth0  == <<"A","A",":","b","b",":","C","C",":","d","d",":","e","e",":","0","1">>
HwBond0 == <<"a","a",":","b","b",":","c","c",":","d","d",":","e","e",":","1","0">>
HwBond1 == <<"a","a",":","b","b",":","c","c",":","d","d",":","e","e",":","2","0">>
HwMemA  == <<"a","a",":","b","b",":","c","c",":","d","d",":","E","E",":","1","1">>
HwMemB  == <<"a","a",":","b","b",":","c","c",":","d","d",":","e","e",":","1","2">>
HwMemC  == <<"a","a",":","b","b",":","c","c",":","d","d",":","e","e",":","2","1">>

DefaultRoute == [To |-> "0.0.0.0/0", Via |-> "dhcp4"]
StaticRoute  == [To |-> "198.51.100.0/24", Via |-> "192.0.2.1"]
SlaacRoute   == [To |-> "::/0", Via |-> "slaac"]

IfEth0 == [Name |-> "eth0", Hwaddr |-> HwEth0, MTU |-> 0,
           Addresses |-> <<"dhcp4", "slaac">>, Routes |-> <<DefaultRoute>>,
           VLAN |-> 0, LLDP |-> TRUE]

BondA == [Name |-> "bond0", Hwaddr |-> HwBond0, MTU |-> 9000,
          Addresses |-> <<"192.0.2.5/24">>, Routes |-> <<StaticRoute>>,
          VLAN |-> 10, LLDP |-> FALSE, Members |-> <<HwMemA, HwMemB>>,
          Mode |-> "802.3ad"]

BondB == [Name |-> "bond1", Hwaddr |-> HwBond1, MTU |-> 0,
          Addresses |-> <<>>, Routes |-> <<>>,
          VLAN |-> 0, LLDP |-> TRUE, Members |-> <<HwMemC>>,
          Mode |-> "active-backup"]

VlanMgmt == [Name |-> "mgmt", Parent |-> "eth0", ID |-> 100, MTU |-> 1400,
             Addresses |-> <<"dhcp6">>, Routes |-> <<>>]

DnsFull == [Hostname |-> "host1", Domain |-> "example.org",
            SearchDomains |-> <<"example.org", "example.net">>,
            Nameservers |-> <<"192.0.2.53">>]

DnsZero == [Hostname |-> "", Domain |-> "", SearchDomains |-> <<>>,
            Nameservers |-> <<>>]

NtpPool == [Timeservers |-> <<"ntp1.example.org", "ntp2.example.org">>]

NtpZero == [Timeservers |-> <<>>]

ProxyA == [HTTPSProxy |-> "http://proxy.example.org:3128"]

\* The zero value of the configuration struct: new(seed.NetworkConfig).
ZeroConfig ==
    [Interfaces |-> <<>>, Bonds |-> <<>>, VLANs |-> <<>>,
     DNS |-> <<>>, NTP |-> <<>>, Proxy |-> <<>>]

CfgIface ==
    [ZeroConfig EXCEPT !.Interfaces = <<IfEth0>>, !.DNS = <<DnsFull>>,
                       !.NTP = <<NtpPool>>, !.Proxy = <<ProxyA>>]

CfgBonds == [ZeroConfig EXCEPT !.Bonds = <<BondA, BondB>>]

CfgMixed ==
    [ZeroConfig EXCEPT !.Interfaces = <<IfEth0>>, !.Bonds = <<BondB>>,
                       !.VLANs = <<VlanMgmt>>,
                       !.DNS = <<[DnsZero EXCEPT !.Hostname = "host2"]>>,
                       !.NTP = <<NtpZero>>]

\* The configurations the host can have been booted with.
BootConfigs == {CfgMixed}

\* Request bodies: a JSON object, as the function from the keys it holds to
\* their values.  Every device element is complete, so decoding an array
\* replaces the list; a pointer field is null (<<>>) or an object (<<o>>)
\* holding some of the struct's keys.
Bodies ==
    { [Interfaces |-> <<IfEth0>>, Bonds |-> <<>>, VLANs |-> <<>>,
       DNS |-> <<DnsFull>>, NTP |-> <<NtpPool>>, Proxy |-> <<ProxyA>>],
      [Interfaces |-> <<>>, Bonds |-> <<BondA, BondB>>, VLANs |-> <<>>,
       DNS |-> <<>>, NTP |-> <<>>, Proxy |-> <<>>],
      [Bonds |-> <<BondB>>, VLANs |-> <<VlanMgmt>>,
       DNS |-> <<[Hostname |-> "host2", Domain |-> ""]>>,
       NTP |-> <<[Timeservers |-> <<>>]>>],
      [Interfaces |-> <<IfEth0>>, Bonds |-> <<>>, VLANs |-> <<>>,
       DNS |-> <<[Hostname |-> "", Domain |-> "example.org"]>>],
      [Interfaces |-> <<>>, Bonds |-> <<>>, VLANs |-> <<>>] }

\* The bodies of the two concurrent requests.
ConcurrentBodies ==
    { [Interfaces |-> <<IfEth0>>, Bonds |-> <<>>, VLANs |-> <<>>,
       DNS |-> <<DnsFull>>, NTP |-> <<NtpPool>>, Proxy |-> <<ProxyA>>],
      [Interfaces |-> <<>>, Bonds |-> <<BondB>>, VLANs |-> <<>>,
       DNS |-> <<>>, NTP |-> <<>>, Proxy |-> <<>>] }

(***************************************************************************)
(* Server.apiNetwork10: building the new configuration                     *)
(***************************************************************************)

ConfigFields == {"Interfaces", "Bonds", "VLANs", "DNS", "NTP", "Proxy"}

PointerFields == {"DNS", "NTP", "Proxy"}

ZeroStruct(field) ==
    CASE field = "DNS" -> DnsZero
      [] field = "NTP" -> NtpZero
      [] OTHER -> [HTTPSProxy |-> ""]

\* Decoding a JSON value into a pointer field: null sets the pointer to nil,
\* an object is decoded into the struct pointed to (allocated when nil), so
\* the keys the object does not hold keep their values.
DecodePointer(field, old, value) ==
    IF value = <<>> THEN <<>>
    ELSE LET base == IF old /= <<>> THEN old[1] ELSE ZeroStruct(field)
         IN  << [k \in DOMAIN base |->
                   IF k \in DOMAIN value[1] THEN value[1][k] ELSE base[k]] >>

\* json.NewDecoder(r.Body).Decode(newConfig): the body's keys are decoded
\* into the fields of newConfig, the other fields are left alone.
Decode(newConfig, body) ==
    [f \in ConfigFields |->
        IF f \notin DOMAIN body THEN newConfig[f]
        ELSE IF f \in PointerFields THEN DecodePointer(f, newConfig[f], body[f])
        ELSE body[f]]

\* json.Marshal followed by json.Unmarshal into a new struct: a value equal
\* to the original that shares nothing with it.
DeepCopy(networkCfg) == Decode(ZeroConfig, networkCfg)

\* seed.NetworkConfigHasEmptyDevices.
NetworkConfigHasEmptyDevices(networkCfg) ==
    /\ Len(networkCfg.Interfaces) = 0
    /\ Len(networkCfg.Bonds) = 0
    /\ Len(networkCfg.VLANs) = 0

(***************************************************************************)
(* ApplyNetworkConfiguration and waitForNetworkRoutable: helpers           *)
(***************************************************************************)

\* time.Sleep(2 * time.Second), in milliseconds.
UdevSleep == 2000

\* time.Sleep(500 * time.Millisecond), in milliseconds.
PollInterval == 500

\* The timeout the REST handler passes: 10*time.Second, in milliseconds.
RestTimeout == 10000

\* The hostname handed to SetHostname.
\* Faulty variant: the domain is appended whether or not a hostname is set.
TargetHostnameDomainAlways(networkCfg) ==
    IF networkCfg.DNS /= <<>>
    THEN IF networkCfg.DNS[1].Domain /= ""
         THEN networkCfg.DNS[1].Hostname \o "." \o networkCfg.DNS[1].Domain
         ELSE networkCfg.DNS[1].Hostname
    ELSE ""

TargetHostname(networkCfg) ==
    IF networkCfg.DNS /= <<>> /\ networkCfg.DNS[1].Hostname /= ""
    THEN IF networkCfg.DNS[1].Domain /= ""
         THEN networkCfg.DNS[1].Hostname \o "." \o networkCfg.DNS[1].Domain
         ELSE networkCfg.DNS[1].Hostname
    ELSE ""

\* Faulty variant: systemd-networkd is restarted before the artifacts are generated.
StepAfterNetworkdFirst(step) ==
    CASE step = "SetHostname" -> "UpdateEnvironment"
      [] step = "UpdateEnvironment" -> "restart systemd-networkd"
      [] step = "restart systemd-networkd" -> "generateNetworkConfiguration"
      [] step = "generateNetworkConfiguration" -> "Sleep"
      [] step = "Sleep" -> "udevadm trigger"
      [] step = "udevadm trigger" -> "udevadm settle"
      [] step = "udevadm settle" -> "restart systemd-timesyncd"
      [] step = "restart systemd-timesyncd" -> "waitForNetworkRoutable"
      [] OTHER -> "return"

\* The order of the steps of ApplyNetworkConfiguration, as written.
StepAfter(step) ==
    CASE step = "SetHostname" -> "UpdateEnvironment"
      [] step = "UpdateEnvironment" -> "generateNetworkConfiguration"
      [] step = "generateNetworkConfiguration" -> "Sleep"
      [] step = "Sleep" -> "udevadm trigger"
      [] step = "udevadm trigger" -> "udevadm settle"
      [] step = "udevadm settle" -> "restart systemd-networkd"
      [] step = "restart systemd-networkd" -> "restart systemd-timesyncd"
      [] step = "restart systemd-timesyncd" -> "waitForNetworkRoutable"
      [] OTHER -> "return"

\* The last argument of the call of waitForNetworkRoutable:
\* seed.NetworkSeedExists().
RequireAllRoutable(seedExists) == seedExists

\* endTime := time.Now().Add(timeout).
EndTime(t, timeout) == t + timeout

\* Faulty variant: the deadline check fires one poll interval late.
AfterOneIntervalLate(t, endTime) == t > endTime + PollInterval

\* time.Now().After(endTime).
After(t, endTime) == t > endTime

\* Faulty variant: the sleep is left out, the clock does not advance.
AfterSleepNoAdvance(t, d) == t

\* The clock after time.Sleep(d).
AfterSleep(t, d) == t + d

\* The outcomes of `networkctl status <name>`: the device is reported in
\* state routable, in another state, or the command fails.
QueryOutcomes == {"routable", "degraded", "error"}

\* A command run with a cancelled context fails.
QueryOutcomesUnder(ctxCancelled) ==
    IF ctxCancelled THEN {"error"} ELSE QueryOutcomes

\* Faulty variant: a failed command counts as routable.
isRoutableUnlessDegraded(outcome) ==
    IF outcome = "error" THEN TRUE ELSE outcome = "routable"

\* isRoutable: false on a command error, else whether the output contains
\* "State: routable".
isRoutable(outcome) ==
    IF outcome = "error" THEN FALSE ELSE outcome = "routable"

Categories == <<"Interfaces", "Bonds", "VLANs">>

\* The queries one poll cycle can make: <<category, index>>.
Queries(networkCfg) ==
    UNION {{<<Categories[c], k>> : k \in 1..Len(networkCfg[Categories[c]])}
              : c \in 1..3}

\* The device name a query asks networkctl about.
QueryName(networkCfg, q) == networkCfg[q[1]][q[2]].Name

\* allXRoutable and atLeastOneXRoutable after the loop over one category.
AllRoutable(networkCfg, cat, answers) ==
    \A k \in 1..Len(networkCfg[cat]) : isRoutable(answers[<<cat, k>>])

AtLeastOneRoutable(networkCfg, cat, answers) ==
    \E k \in 1..Len(networkCfg[cat]) : isRoutable(answers[<<cat, k>>])

\* Faulty variant: the category's verdict is atLeastOneXRoutable whatever requireAll is.
CategoryPassesAnyOnly(networkCfg, cat, requireAllRoutable, answers) ==
    \/ Len(networkCfg[cat]) = 0
    \/ AtLeastOneRoutable(networkCfg, cat, answers)

\* Faulty variant: the category's verdict is allXRoutable whatever requireAll is.
CategoryPassesAllOnly(networkCfg, cat, requireAllRoutable, answers) ==
    \/ Len(networkCfg[cat]) = 0
    \/ AllRoutable(networkCfg, cat, answers)

\* Whether the loop body goes on after a category's block (no `continue`).
CategoryPasses(networkCfg, cat, requireAllRoutable, answers) ==
    \/ Len(networkCfg[cat]) = 0
    \/ /\ ~(requireAllRoutable /\ ~AllRoutable(networkCfg, cat, answers))
       /\ ~(~requireAllRoutable /\ ~AtLeastOneRoutable(networkCfg, cat, answers))

\* The categories whose devices one poll cycle queries: a category is
\* reached only when every category before it passed.
QueriedCategories(networkCfg, requireAllRoutable, answers) ==
    {c \in 1..3 :
        /\ Len(networkCfg[Categories[c]]) > 0
        /\ \A b \in 1..(c - 1) :
              CategoryPasses(networkCfg, Categories[b], requireAllRoutable, answers)}

\* Whether the poll cycle reaches `return nil`.
PollSucceeds(networkCfg, requireAllRoutable, answers) ==
    \A c \in 1..3 :
        CategoryPasses(networkCfg, Categories[c], requireAllRoutable, answers)

\* What one poll cycle observed: <<category, index, outcome>> per query made.
PollReport(networkCfg, requireAllRoutable, answers) ==
    {<<q[1], q[2], answers[q]>> : q \in
        {p \in Queries(networkCfg) :
            \E c \in QueriedCategories(networkCfg, requireAllRoutable, answers) :
                Categories[c] = p[1]}}

(***************************************************************************)
(* Package install: what Install.DoInstall and the functions it calls      *)
(* compute.                                                                *)
(***************************************************************************)

\* strings.Contains(s, substr).
Contains(s, substr) ==
    \E k \in 0..(Len(s) - Len(substr)) : SubSeq(s, k + 1, k + Len(substr)) = substr

getPartitionPrefix(device) == IF Contains(device, "/nvme") THEN "p" ELSE ""

\* The path of partition n of a device.
PartitionPath(device, n) == device \o getPartitionPrefix(device) \o ToString(n)

\* The block devices lsblk can list: kname and id-link.
DiskUsb  == [KName |-> "/dev/sda", ID |-> "usb-Installer_0001"]
DiskSata == [KName |-> "/dev/sdb", ID |-> "ata-DiskB_0002"]
DiskNvme == [KName |-> "/dev/nvme0n1", ID |-> "nvme-DiskN_0003"]
DiskVirt == [KName |-> "/dev/vda", ID |-> "virtio-DiskV_0004"]

\* What the three lsblk calls (-N, -S, -v) list.
LsblkOutputs ==
    [nvme : {<<>>, <<DiskNvme>>},
     scsi : {<<>>, <<DiskUsb>>, <<DiskUsb, DiskSata>>},
     virtual : {<<>>, <<DiskVirt>>}]

\* What getSourceDevice returns.
SourceDevices == {"/dev/sda", "/dev/nvme0n1"}

\* The name the kernel gives the first partition of each of them.
FirstPartition == [d \in SourceDevices |->
                      IF d = "/dev/nvme0n1" THEN "/dev/nvme0n1p1" ELSE "/dev/sda1"]

\* The nodes of the install media in /dev while it is plugged in.
MediaNodes(sourceDevice) ==
    IF sourceDevice \in SourceDevices
    THEN {sourceDevice, FirstPartition[sourceDevice]}
    ELSE {}

\* config.Target: <<>> is the nil pointer.
Targets == {<<>>, <<[ID |-> "ata-"]>>, <<[ID |-> "usb-"]>>, <<[ID |-> "Disk"]>>}

InstallConfigs == [ForceInstall : BOOLEAN, ForceReboot : BOOLEAN, Target : Targets]

\* The output of `sgdisk -v` on a device without and with a partition table.
SgdiskOutputs ==
    {"Creating new GPT entries in memory. No problems found.",
     "No problems found. 2014 free sectors available."}

\* potentialTargets after the three appends.
PotentialTargets(lsblk) == lsblk.nvme \o lsblk.scsi \o lsblk.virtual

\* Faulty variant: the source device is not skipped.
QualifiesSourceToo(config, device, sourceDevice) ==
    config.Target = <<>> \/ Contains(device.ID, config.Target[1].ID)

\* Whether the selection loop returns the device.
Qualifies(config, device, sourceDevice) ==
    /\ device.KName /= sourceDevice
    /\ (config.Target = <<>> \/ Contains(device.ID, config.Target[1].ID))

NoPotentialDevices == "no potential install devices found"

NotExactlyOneDevice ==
    "no target configuration provided, and didn't find exactly one install device"

NoTargetDevice == "unable to determine target device"

\* getTargetDevice once the three lists are read: [device, err].
getTargetDevice(config, potentialTargets, sourceDevice) ==
    IF Len(potentialTargets) < 2
    THEN [device |-> "", err |-> NoPotentialDevices]
    ELSE IF config.Target = <<>> /\ Len(potentialTargets) /= 2
    THEN [device |-> "", err |-> NotExactlyOneDevice]
    ELSE LET found == {k \in 1..Len(potentialTargets) :
                          Qualifies(config, potentialTargets[k], sourceDevice)}
         IN  IF found = {}
             THEN [device |-> "", err |-> NoTargetDevice]
             ELSE [device |-> potentialTargets[CHOOSE k \in found :
                                                  \A j \in found : k <= j].KName,
                   err |-> ""]

\* Faulty variant: the partition table of the target is never an obstacle.
PartitionTableExistsNever(output, config) == FALSE

\* Whether performInstall refuses the target after `sgdisk -v`.
PartitionTableExists(output, config) ==
    ~Contains(output, "Creating new GPT entries in memory") /\ ~config.ForceInstall

\* The error of the refusal (the message quotes ForceInstall in backquotes).
PartitionTableError(targetDevice) ==
    "a partition table already exists on device '" \o targetDevice
        \o "', and ForceInstall from install configuration isn't true"

\* The steps of performInstall after the check, in the order of the code.
InstallOrder ==
    <<"swapoff -a", "unmount /boot/">>
    \o [k \in 1..3 |-> "sgdisk -d " \o ToString(k + 8)]
    \o <<"sgdisk -R">>
    \o [k \in 1..8 |-> "doCopy " \o ToString(k)]
    \o <<"tar --delete install.json", "tar --delete install.yaml">>

\* How a step can end; tar can fail for want of the file in the archive.
StepOutcomes(step) ==
    IF Contains(step, "tar --delete")
    THEN {"ok", "Not found in archive", "error"}
    ELSE {"ok", "error"}

\* Whether performInstall goes on after the step.
StepContinues(step, outcome) ==
    \/ outcome = "ok"
    \/ Contains(step, "tar --delete") /\ outcome = "Not found in archive"

\* The position after a step of InstallOrder.
InstallStepAfter(step) ==
    LET k == CHOOSE j \in 1..Len(InstallOrder) : InstallOrder[j] = step
    IN  IF k < Len(InstallOrder) THEN InstallOrder[k + 1]
        ELSE "rebootUponDeviceRemoval"

\* What os.Stat of a path can return, dev being the nodes in /dev.
StatOutcomes(path, dev) ==
    (IF path \in dev THEN {"exists"} ELSE {"ErrNotExist"}) \cup {"error"}

\* Faulty variant: any stat error ends the wait with a reboot.
RebootLoopAnyError(config, stat) ==
    IF config.ForceReboot \/ stat /= "exists" THEN "reboot" ELSE "sleep"

\* One pass of the loop of rebootUponDeviceRemoval: reboot, sleep, or return
\* the error.
RebootLoop(config, stat) ==
    IF config.ForceReboot THEN "reboot"
    ELSE IF stat = "exists" THEN "sleep"
    ELSE IF stat = "ErrNotExist" THEN "reboot"
    ELSE "return"

\* The install before DoInstall is called.
InstallState(config, lsblk, sourceDevice, output) ==
    [config |-> config, lsblk |-> lsblk, sourceDevice |-> sourceDevice,
     sgdiskOutput |-> output, dev |-> MediaNodes(sourceDevice), pc |-> "DoInstall",
     targetDevice |-> "", ran |-> <<>>, stats |-> 0, lastStat |-> "",
     rebooted |-> FALSE, err |-> ""]

\* No install is made.
NoInstall ==
    InstallState([ForceInstall |-> FALSE, ForceReboot |-> FALSE, Target |-> <<>>],
                 [nvme |-> <<>>, scsi |-> <<>>, virtual |-> <<>>], "", "")

(***************************************************************************)
(* State                                                                   *)
(***************************************************************************)

VARIABLES
    active,          \* s.state.NetworkConfig
    host,            \* [dir, dirExists, timesync]: /run/systemd/network and
                     \* the time-sync configuration file
    hostname,        \* the hostname last set through SetHostname
    environment,     \* the proxy block last handed to UpdateEnvironment
    networkSeed,     \* seed.NetworkSeedExists()
    genCfg,          \* the configuration handed to the generators
    artifacts,       \* what each run of the generators on genCfg returned
    install,         \* the install: its configuration, what it finds on the
                     \* host, the position of DoInstall and what it did
    pc,              \* per request: the position of its handler
    newConfig,       \* per request: newConfig
    cancelled,       \* per request: whether r.Context() is cancelled
    now,             \* per request: milliseconds since ApplyNetworkConfiguration was entered
    endTime,         \* per request: endTime of waitForNetworkRoutable
    requireAll,      \* per request: requireAllRoutable
    lastCheck,       \* per request: the time of the last deadline check
    report,          \* per request: what the last poll cycle observed
    pollsCancelled,  \* per request: poll cycles made with a cancelled context
    steps,           \* per request: the steps of ApplyNetworkConfiguration begun
    err,             \* per request: err of ApplyNetworkConfiguration ("" is nil)
    result           \* per request: the response rendered, [status, error, metadata]

vars == <<active, host, hostname, environment, networkSeed, genCfg, artifacts,
          install, pc, newConfig,
          cancelled, now, endTime, requireAll, lastCheck, report,
          pollsCancelled, steps, err, result>>

hostVars == <<host, hostname, environment>>

\* What no step of a request changes.
fixedVars == <<networkSeed, genCfg, artifacts, install>>

waitVars == <<endTime, requireAll, lastCheck, report, pollsCancelled>>

\* The requests in flight: net/http runs each handler in its own goroutine.
Requests == {"r1", "r2"}

\* The request of the specification in which requests follow one another.
Sequential == {"r1"}

\* The poll cycles counted after a cancellation.
MaxCancelledPolls == 2

NoResult == [status |-> "", error |-> "", metadata |-> <<>>]

\* response.EmptySyncResponse and response.SyncResponse(true, v).
SyncResponse(metadata) == [status |-> "Success", error |-> "", metadata |-> metadata]

\* response.BadRequest(err).
BadRequest(e) == [status |-> "Bad Request", error |-> e, metadata |-> <<>>]

TimeoutError == "timed out waiting for network to become routable"

\* The host files a successful generateNetworkConfiguration leaves.
HostFilesOf(networkCfg) ==
    generateNetworkConfiguration(
        [dir |-> EmptyDir, dirExists |-> TRUE, timesync |-> <<>>],
        networkCfg, NoFailure)

\* The state after the daemon applied the configuration the host booted with.
Init ==
    /\ active \in BootConfigs
    /\ networkSeed \in BOOLEAN
    /\ genCfg = ZeroConfig
    /\ artifacts = <<>>
    /\ install = NoInstall
    /\ host = HostFilesOf(active)
    /\ hostname = TargetHostname(active)
    /\ environment = active.Proxy
    /\ pc = [r \in Requests |-> "idle"]
    /\ newConfig = [r \in Requests |-> ZeroConfig]
    /\ cancelled = [r \in Requests |-> FALSE]
    /\ now = [r \in Requests |-> 0]
    /\ endTime = [r \in Requests |-> 0]
    /\ requireAll = [r \in Requests |-> FALSE]
    /\ lastCheck = [r \in Requests |-> 0]
    /\ report = [r \in Requests |-> {}]
    /\ pollsCancelled = [r \in Requests |-> 0]
    /\ steps = [r \in Requests |-> <<>>]
    /\ err = [r \in Requests |-> ""]
    /\ result = [r \in Requests |-> NoResult]

(***************************************************************************)
(* Server.apiNetwork10                                                     *)
(***************************************************************************)

\* The handler returns after rendering res.
Respond(r, res) ==
    /\ pc' = [pc EXCEPT ![r] = "done"]
    /\ result' = [result EXCEPT ![r] = res]

\* case http.MethodGet.
RestGet(r) ==
    /\ pc[r] = "idle"
    /\ Respond(r, SyncResponse(<<active>>))
    /\ UNCHANGED <<active, hostVars, fixedVars, newConfig, cancelled, now,
                   waitVars, steps, err>>

\* Faulty variant: PATCH decodes the body into the active configuration
\* itself (newConfig = s.state.NetworkConfig, no copy).
DecodeWritesToActive(m) ==
    IF m = "PATCH" THEN {"newConfig", "active"} ELSE {"newConfig"}

\* The structs the decoder writes to when the body is decoded into
\* newConfig: newConfig is new(seed.NetworkConfig), for PATCH filled from
\* the JSON of the active configuration, and shares no memory with it.
DecodeWritesTo(m) == {"newConfig"}

NoDevicesError == "network configuration has no devices defined"

\* Faulty variant: the configuration is not checked for devices.
RestDecodeWithoutDeviceCheck(r, bodies) ==
    /\ pc[r] = "idle"
    /\ \E m \in {"PUT", "PATCH"}, body \in bodies, valid \in BOOLEAN :
          LET base == IF m = "PATCH" THEN DeepCopy(active) ELSE ZeroConfig
              decoded == Decode(base, body)
          IN  IF ~valid
                 THEN /\ Respond(r, BadRequest("invalid JSON"))
                      /\ UNCHANGED newConfig
                 ELSE /\ newConfig' = [newConfig EXCEPT ![r] = decoded]
                      /\ pc' = [pc EXCEPT ![r] = "swap"]
                      /\ UNCHANGED result
    /\ UNCHANGED <<active, hostVars, fixedVars, cancelled, now, waitVars, steps, err>>

\* case http.MethodPatch, http.MethodPut: up to the check for devices.  The
\* body is one of bodies or is not valid JSON; what a failing decoder wrote
\* before it failed is taken to be all of the body.
RestDecode(r, bodies) ==
    /\ pc[r] = "idle"
    /\ \E m \in {"PUT", "PATCH"}, body \in bodies, valid \in BOOLEAN :
          LET base == IF m = "PATCH" THEN DeepCopy(active) ELSE ZeroConfig
              decoded == Decode(base, body)
          IN  /\ active' = IF "active" \in DecodeWritesTo(m) THEN decoded ELSE active
              /\ IF ~valid
                 THEN /\ Respond(r, BadRequest("invalid JSON"))
                      /\ UNCHANGED newConfig
                 ELSE IF NetworkConfigHasEmptyDevices(decoded)
                 THEN /\ Respond(r, BadRequest(NoDevicesError))
                      /\ UNCHANGED newConfig
                 ELSE /\ newConfig' = [newConfig EXCEPT ![r] = decoded]
                      /\ pc' = [pc EXCEPT ![r] = "swap"]
                      /\ UNCHANGED result
    /\ UNCHANGED <<hostVars, fixedVars, cancelled, now, waitVars, steps, err>>

\* Faulty variant: the active configuration is left for a later statement to
\* assign.
RestSwapKeepingActive(r) ==
    /\ pc[r] = "swap"
    /\ pc' = [pc EXCEPT ![r] = "SetHostname"]
    /\ now' = [now EXCEPT ![r] = 0]
    /\ steps' = [steps EXCEPT ![r] = <<>>]
    /\ err' = [err EXCEPT ![r] = ""]
    /\ UNCHANGED <<active, hostVars, fixedVars, newConfig, cancelled,
                   waitVars, result>>

\* s.state.NetworkConfig = newConfig, and the call of ApplyNetworkConfiguration.
RestSwap(r) ==
    /\ pc[r] = "swap"
    /\ active' = newConfig[r]
    /\ pc' = [pc EXCEPT ![r] = "SetHostname"]
    /\ now' = [now EXCEPT ![r] = 0]
    /\ steps' = [steps EXCEPT ![r] = <<>>]
    /\ err' = [err EXCEPT ![r] = ""]
    /\ UNCHANGED <<hostVars, fixedVars, newConfig, cancelled,
                   waitVars, result>>

\* r.Context() is cancelled: the client went away or the server shuts down.
Cancel(r) ==
    /\ pc[r] \notin {"idle", "done"}
    /\ ~cancelled[r]
    /\ cancelled' = [cancelled EXCEPT ![r] = TRUE]
    /\ UNCHANGED <<active, hostVars, fixedVars, pc, newConfig, now,
                   waitVars, steps, err, result>>

\* The handler has returned; the next request is served.
RestFinish(r) ==
    /\ pc[r] = "done"
    /\ pc' = [pc EXCEPT ![r] = "idle"]
    /\ newConfig' = [newConfig EXCEPT ![r] = ZeroConfig]
    /\ cancelled' = [cancelled EXCEPT ![r] = FALSE]
    /\ now' = [now EXCEPT ![r] = 0]
    /\ endTime' = [endTime EXCEPT ![r] = 0]
    /\ requireAll' = [requireAll EXCEPT ![r] = FALSE]
    /\ lastCheck' = [lastCheck EXCEPT ![r] = 0]
    /\ report' = [report EXCEPT ![r] = {}]
    /\ pollsCancelled' = [pollsCancelled EXCEPT ![r] = 0]
    /\ steps' = [steps EXCEPT ![r] = <<>>]
    /\ err' = [err EXCEPT ![r] = ""]
    /\ result' = [result EXCEPT ![r] = NoResult]
    /\ UNCHANGED <<active, hostVars, fixedVars>>

(***************************************************************************)
(* ApplyNetworkConfiguration, one action per step.  pc[r] names the step   *)
(* the call is about to make.                                              *)
(***************************************************************************)

\* Faulty variant: the error of a step is assigned but not returned.
StepDoneIgnoringError(r, step, ok) ==
    /\ steps' = [steps EXCEPT ![r] = Append(@, step)]
    /\ pc' = [pc EXCEPT ![r] = StepAfter(step)]
    /\ err' = [err EXCEPT ![r] = IF ok THEN @ ELSE step \o " failed"]
    /\ UNCHANGED result

\* The step was made: it is recorded, and the call goes on to the next step
\* or returns the step's error, which the handler renders.
StepDone(r, step, ok) ==
    /\ steps' = [steps EXCEPT ![r] = Append(@, step)]
    /\ IF ok
       THEN /\ pc' = [pc EXCEPT ![r] = StepAfter(step)]
            /\ UNCHANGED <<err, result>>
       ELSE /\ err' = [err EXCEPT ![r] = step \o " failed"]
            /\ Respond(r, BadRequest(step \o " failed"))

\* Whether a command run through subprocess.RunCommandContext(ctx, ...) can
\* succeed: not when ctx is cancelled.
CommandResults(ctxCancelled) == IF ctxCancelled THEN {FALSE} ELSE BOOLEAN

ApplySetHostname(r) ==
    /\ pc[r] = "SetHostname"
    /\ \E ok \in BOOLEAN :
          /\ hostname' = IF ok THEN TargetHostname(newConfig[r]) ELSE hostname
          /\ StepDone(r, "SetHostname", ok)
    /\ UNCHANGED <<active, host, environment, fixedVars, newConfig, cancelled, now, waitVars>>

ApplyUpdateEnvironment(r) ==
    /\ pc[r] = "UpdateEnvironment"
    /\ \E ok \in BOOLEAN :
          /\ environment' = IF ok THEN newConfig[r].Proxy ELSE environment
          /\ StepDone(r, "UpdateEnvironment", ok)
    /\ UNCHANGED <<active, host, hostname, fixedVars, newConfig, cancelled, now, waitVars>>

ApplyGenerate(r) ==
    /\ pc[r] = "generateNetworkConfiguration"
    /\ \E failAt \in GenerateFailures(newConfig[r]) \cup {NoFailure}
                          \cup RemoveOutcomes(host, newConfig[r]) :
          /\ host' = generateNetworkConfiguration(host, newConfig[r], failAt)
          /\ StepDone(r, "generateNetworkConfiguration", failAt[1] = "none")
    /\ UNCHANGED <<active, hostname, environment, fixedVars, newConfig, cancelled, now, waitVars>>

ApplySleep(r) ==
    /\ pc[r] = "Sleep"
    /\ now' = [now EXCEPT ![r] = AfterSleep(@, UdevSleep)]
    /\ StepDone(r, "Sleep", TRUE)
    /\ UNCHANGED <<active, hostVars, fixedVars, newConfig, cancelled,
                   waitVars>>

ApplyUdevTrigger(r) ==
    /\ pc[r] = "udevadm trigger"
    /\ \E ok \in CommandResults(cancelled[r]) : StepDone(r, "udevadm trigger", ok)
    /\ UNCHANGED <<active, hostVars, fixedVars, newConfig, cancelled,
                   now, waitVars>>

ApplyUdevSettle(r) ==
    /\ pc[r] = "udevadm settle"
    /\ \E ok \in CommandResults(cancelled[r]) : StepDone(r, "udevadm settle", ok)
    /\ UNCHANGED <<active, hostVars, fixedVars, newConfig, cancelled,
                   now, waitVars>>

ApplyRestartNetworkd(r) ==
    /\ pc[r] = "restart systemd-networkd"
    /\ \E ok \in BOOLEAN : StepDone(r, "restart systemd-networkd", ok)
    /\ UNCHANGED <<active, hostVars, fixedVars, newConfig, cancelled, now,
                   waitVars>>

ApplyRestartTimesyncd(r) ==
    /\ pc[r] = "restart systemd-timesyncd"
    /\ \E ok \in BOOLEAN : StepDone(r, "restart systemd-timesyncd", ok)
    /\ UNCHANGED <<active, hostVars, fixedVars, newConfig, cancelled, now,
                   waitVars>>

(***************************************************************************)
(* waitForNetworkRoutable                                                  *)
(***************************************************************************)

\* The call, and endTime := time.Now().Add(timeout).
WaitStart(r) ==
    /\ pc[r] = "waitForNetworkRoutable"
    /\ steps' = [steps EXCEPT ![r] = Append(@, "waitForNetworkRoutable")]
    /\ requireAll' = [requireAll EXCEPT ![r] = RequireAllRoutable(networkSeed)]
    /\ endTime' = [endTime EXCEPT ![r] = EndTime(now[r], RestTimeout)]
    /\ lastCheck' = [lastCheck EXCEPT ![r] = now[r]]
    /\ report' = [report EXCEPT ![r] = {}]
    /\ pollsCancelled' = [pollsCancelled EXCEPT ![r] = 0]
    /\ pc' = [pc EXCEPT ![r] = "waitCheck"]
    /\ UNCHANGED <<active, hostVars, fixedVars, newConfig, cancelled,
                   now, err, result>>

\* The top of the loop: the deadline check, then time.Sleep(500ms).
WaitCheck(r) ==
    /\ pc[r] = "waitCheck"
    /\ lastCheck' = [lastCheck EXCEPT ![r] = now[r]]
    /\ IF After(now[r], endTime[r])
       THEN /\ err' = [err EXCEPT ![r] = TimeoutError]
            /\ Respond(r, BadRequest(TimeoutError))
            /\ UNCHANGED <<now, report>>
       ELSE /\ now' = [now EXCEPT ![r] = AfterSleep(@, PollInterval)]
            /\ report' = [report EXCEPT ![r] = {}]
            /\ pc' = [pc EXCEPT ![r] = "waitPoll"]
            /\ UNCHANGED <<err, result>>
    /\ UNCHANGED <<active, hostVars, fixedVars, newConfig, cancelled,
                   endTime, requireAll, pollsCancelled, steps>>

\* The rest of the loop body: one poll cycle.  answers holds what each
\* `networkctl status` would report when asked.
WaitPoll(r) ==
    /\ pc[r] = "waitPoll"
    /\ \E answers \in [Queries(newConfig[r]) -> QueryOutcomesUnder(cancelled[r])] :
          /\ report' = [report EXCEPT ![r] =
                            PollReport(newConfig[r], requireAll[r], answers)]
          /\ IF PollSucceeds(newConfig[r], requireAll[r], answers)
             THEN Respond(r, SyncResponse(<<>>))
             ELSE /\ pc' = [pc EXCEPT ![r] = "waitCheck"]
                  /\ UNCHANGED result
    /\ pollsCancelled' = [pollsCancelled EXCEPT ![r] =
                             IF cancelled[r] /\ @ < MaxCancelledPolls THEN @ + 1 ELSE @]
    /\ UNCHANGED <<active, hostVars, fixedVars, newConfig, cancelled,
                   now, endTime, requireAll, lastCheck, steps, err>>

(***************************************************************************)
(* Specifications                                                          *)
(***************************************************************************)

Apply(r) ==
    \/ ApplySetHostname(r)
    \/ ApplyUpdateEnvironment(r)
    \/ ApplyGenerate(r)
    \/ ApplySleep(r)
    \/ ApplyUdevTrigger(r)
    \/ ApplyUdevSettle(r)
    \/ ApplyRestartNetworkd(r)
    \/ ApplyRestartTimesyncd(r)
    \/ WaitStart(r)

Wait(r) == WaitCheck(r) \/ WaitPoll(r)

\* Requests served one after the other.
Next ==
    \E r \in Sequential :
        \/ RestGet(r)
        \/ RestDecode(r, Bodies)
        \/ RestSwap(r)
        \/ Apply(r)
        \/ Wait(r)
        \/ Cancel(r)
        \/ RestFinish(r)

Spec == Init /\ [][Next]_vars

\* The goroutine of a handler keeps running, and every command it runs
\* returns: a wait that can take a step takes it.
FairSpec == Spec /\ \A r \in Sequential : WF_vars(Wait(r))

\* Two requests served concurrently, once each.
NextConcurrent ==
    \E r \in Requests :
        \/ RestDecode(r, ConcurrentBodies)
        \/ RestSwap(r)
        \/ Apply(r)
        \/ Wait(r)

SpecConcurrent == Init /\ [][NextConcurrent]_vars

(***************************************************************************)
(* The generators alone: generateLinkFileContents,                         *)
(* generateNetdevFileContents, generateNetworkFileContents and             *)
(* generateTimesyncContents run on a configuration, as                     *)
(* generateNetworkConfiguration calls them, several times over.            *)
(***************************************************************************)

\* The address tokens the configurations are built from.
AddressTokens == {"dhcp4", "dhcp6", "slaac", "192.0.2.5/24", "2001:db8::5/64"}

\* The longest address list.
MaxAddresses == 3

AddressLists == UNION {[1..n -> AddressTokens] : n \in 0..MaxAddresses}

\* The runs of the generators on one configuration.
MaxRuns == 2

HwMain == <<"a","a",":","b","b",":","c","c",":","d","d",":","e","e",":","f","f">>

IfMain == [Name |-> "eth-main", Hwaddr |-> HwMain, MTU |-> 0,
           Addresses |-> <<"192.0.2.5/24">>, Routes |-> <<>>,
           VLAN |-> 0, LLDP |-> FALSE]

VlanStorage == [Name |-> "storage", Parent |-> "bond0", ID |-> 200, MTU |-> 0,
                Addresses |-> <<>>, Routes |-> <<StaticRoute>>]

\* The configuration of one interface of section 8 of the specification.
CfgMain == [ZeroConfig EXCEPT !.Interfaces = <<IfMain>>]

\* One device of each kind with every address list.
AddressConfigs ==
    {[ZeroConfig EXCEPT !.Interfaces = <<[IfEth0 EXCEPT !.Addresses = a]>>]
        : a \in AddressLists}
    \cup {[ZeroConfig EXCEPT !.Bonds = <<[BondA EXCEPT !.Addresses = a]>>]
        : a \in AddressLists}
    \cup {[ZeroConfig EXCEPT !.VLANs = <<[VlanMgmt EXCEPT !.Addresses = a]>>]
        : a \in AddressLists}

\* Every combination of up to two devices of each kind, with and without
\* DNS and NTP.
ShapeConfigs ==
    {[Interfaces |-> i, Bonds |-> b, VLANs |-> v, DNS |-> d, NTP |-> n,
      Proxy |-> <<>>] :
        i \in {<<>>, <<IfMain>>, <<IfEth0, IfMain>>},
        b \in {<<>>, <<BondA>>, <<BondA, BondB>>},
        v \in {<<>>, <<VlanMgmt>>, <<VlanMgmt, VlanStorage>>},
        d \in {<<>>, <<DnsFull>>},
        n \in {<<>>, <<NtpZero>>, <<NtpPool>>}}

\* The longest route list.
MaxRoutes == 2

RouteLists == UNION {[1..n -> {DefaultRoute, SlaacRoute, StaticRoute}]
                        : n \in 0..MaxRoutes}

\* One device of each kind with every route list.
RouteConfigs ==
    {[ZeroConfig EXCEPT !.Interfaces = <<[IfEth0 EXCEPT !.Routes = rs]>>]
        : rs \in RouteLists}
    \cup {[ZeroConfig EXCEPT !.Bonds = <<[BondA EXCEPT !.Routes = rs]>>]
        : rs \in RouteLists}
    \cup {[ZeroConfig EXCEPT !.VLANs = <<[VlanMgmt EXCEPT !.Routes = rs]>>]
        : rs \in RouteLists}

\* An interface whose logical name is "br" followed by its own stripped
\* hardware address.
IfBridgeNamed == [IfMain EXCEPT !.Name = "br" \o StrippedHwaddr(HwMain)]

NameConfigs == {[ZeroConfig EXCEPT !.Interfaces = <<IfBridgeNamed>>]}

GenConfigs == AddressConfigs \cup ShapeConfigs \cup RouteConfigs \cup NameConfigs

\* Faulty variant: the slice of link files is kept from one call to the next
\* and appended to.
ArtifactsAppending(networkCfg) ==
    [links |-> (IF artifacts = <<>> THEN <<>> ELSE artifacts[Len(artifacts)].links)
                   \o generateLinkFileContents(networkCfg),
     netdevs |-> generateNetdevFileContents(networkCfg),
     networks |-> generateNetworkFileContents(networkCfg),
     timesync |-> NtpCfg(networkCfg)]

\* What the four generators return for networkCfg, as
\* generateNetworkConfiguration calls them.
Artifacts(networkCfg) ==
    [links |-> generateLinkFileContents(networkCfg),
     netdevs |-> generateNetdevFileContents(networkCfg),
     networks |-> generateNetworkFileContents(networkCfg),
     timesync |-> NtpCfg(networkCfg)]

GenInit ==
    /\ genCfg \in GenConfigs
    /\ artifacts = <<>>
    /\ install = NoInstall
    /\ active \in BootConfigs
    /\ networkSeed = FALSE
    /\ host = HostFilesOf(active)
    /\ hostname = TargetHostname(active)
    /\ environment = active.Proxy
    /\ pc = [r \in Requests |-> "idle"]
    /\ newConfig = [r \in Requests |-> ZeroConfig]
    /\ cancelled = [r \in Requests |-> FALSE]
    /\ now = [r \in Requests |-> 0]
    /\ endTime = [r \in Requests |-> 0]
    /\ requireAll = [r \in Requests |-> FALSE]
    /\ lastCheck = [r \in Requests |-> 0]
    /\ report = [r \in Requests |-> {}]
    /\ pollsCancelled = [r \in Requests |-> 0]
    /\ steps = [r \in Requests |-> <<>>]
    /\ err = [r \in Requests |-> ""]
    /\ result = [r \in Requests |-> NoResult]

\* One run of the generators on genCfg.
Generate ==
    /\ Len(artifacts) < MaxRuns
    /\ artifacts' = Append(artifacts, Artifacts(genCfg))
    /\ UNCHANGED <<active, hostVars, networkSeed, genCfg, install, pc, newConfig,
                   cancelled, now, waitVars, steps, err, result>>

GenNext == Generate

GenSpec == GenInit /\ [][GenNext]_vars

(***************************************************************************)
(* Install.DoInstall: getSourceDevice, getTargetDevice, performInstall and *)
(* rebootUponDeviceRemoval, on a host where nothing else runs.             *)
(***************************************************************************)

\* The calls of os.Stat that are counted.
MaxStats == 2

\* What no step of the install changes.
networkVars == <<active, hostVars, networkSeed, genCfg, artifacts, pc, newConfig,
                 cancelled, now, waitVars, steps, err, result>>

InstallInit ==
    /\ install \in {InstallState(c, l, d, o) :
                       c \in InstallConfigs, l \in LsblkOutputs,
                       d \in SourceDevices, o \in SgdiskOutputs}
    /\ genCfg = ZeroConfig
    /\ artifacts = <<>>
    /\ active \in BootConfigs
    /\ networkSeed = FALSE
    /\ host = HostFilesOf(active)
    /\ hostname = TargetHostname(active)
    /\ environment = active.Proxy
    /\ pc = [r \in Requests |-> "idle"]
    /\ newConfig = [r \in Requests |-> ZeroConfig]
    /\ cancelled = [r \in Requests |-> FALSE]
    /\ now = [r \in Requests |-> 0]
    /\ endTime = [r \in Requests |-> 0]
    /\ requireAll = [r \in Requests |-> FALSE]
    /\ lastCheck = [r \in Requests |-> 0]
    /\ report = [r \in Requests |-> {}]
    /\ pollsCancelled = [r \in Requests |-> 0]
    /\ steps = [r \in Requests |-> <<>>]
    /\ err = [r \in Requests |-> ""]
    /\ result = [r \in Requests |-> NoResult]

\* DoInstall up to the call of getTargetDevice: tui.GetTUI and
\* getSourceDevice, either of which can fail.
InstallGetSourceDevice ==
    /\ install.pc = "DoInstall"
    /\ \E ok \in BOOLEAN :
          install' = IF ok
                     THEN [install EXCEPT !.pc = "getTargetDevice"]
                     ELSE [install EXCEPT !.pc = "returned",
                                          !.err = "getSourceDevice failed"]
    /\ UNCHANGED networkVars

\* getTargetDevice: the three lsblk calls, any of which can fail, then the
\* selection.
InstallGetTargetDevice ==
    /\ install.pc = "getTargetDevice"
    /\ \E ok \in BOOLEAN :
          LET found == getTargetDevice(install.config,
                                       PotentialTargets(install.lsblk),
                                       install.sourceDevice)
          IN  install' =
                  IF ~ok
                  THEN [install EXCEPT !.pc = "returned", !.err = "lsblk failed"]
                  ELSE IF found.err /= ""
                  THEN [install EXCEPT !.pc = "returned", !.err = found.err]
                  ELSE [install EXCEPT !.pc = "performInstall",
                                       !.targetDevice = found.device]
    /\ UNCHANGED networkVars

\* performInstall up to the first step: tui.GetTUI, `sgdisk -v` and the
\* check of its output.
InstallCheckTarget ==
    /\ install.pc = "performInstall"
    /\ \E ok \in BOOLEAN :
          install' =
              IF ~ok
              THEN [install EXCEPT !.pc = "returned", !.err = "sgdisk -v failed"]
              ELSE IF PartitionTableExists(install.sgdiskOutput, install.config)
              THEN [install EXCEPT !.pc = "returned",
                                   !.err = PartitionTableError(install.targetDevice)]
              ELSE [install EXCEPT !.pc = InstallOrder[1]]
    /\ UNCHANGED networkVars

\* One step of performInstall after the check: it runs, and performInstall
\* goes on or returns its error.
InstallStep ==
    /\ \E k \in 1..Len(InstallOrder) : InstallOrder[k] = install.pc
    /\ \E outcome \in StepOutcomes(install.pc) :
          install' =
              IF StepContinues(install.pc, outcome)
              THEN [install EXCEPT !.ran = Append(@, <<install.pc, outcome>>),
                                   !.pc = InstallStepAfter(install.pc)]
              ELSE [install EXCEPT !.ran = Append(@, <<install.pc, outcome>>),
                                   !.pc = "returned",
                                   !.err = install.pc \o " failed"]
    /\ UNCHANGED networkVars

\* rebootUponDeviceRemoval: one pass of the loop (skipped with ForceReboot),
\* and after the loop unix.Sync and the write to /proc/sysrq-trigger, which
\* can fail.
InstallWaitForRemoval ==
    /\ install.pc = "rebootUponDeviceRemoval"
    /\ \E stat \in StatOutcomes(PartitionPath(install.sourceDevice, 1), install.dev),
          written \in BOOLEAN :
          LET verdict == RebootLoop(install.config, stat)
              statted == ~install.config.ForceReboot
          IN  install' =
                  [install EXCEPT
                      !.lastStat = IF statted THEN stat ELSE @,
                      !.stats = IF statted /\ @ < MaxStats THEN @ + 1 ELSE @,
                      !.pc = CASE verdict = "sleep" -> @
                               [] verdict = "reboot" /\ written -> "rebooted"
                               [] OTHER -> "returned",
                      !.rebooted = (verdict = "reboot" /\ written),
                      !.err = CASE verdict = "return" -> "stat failed"
                                [] verdict = "reboot" /\ ~written ->
                                       "write /proc/sysrq-trigger failed"
                                [] OTHER -> @]
    /\ UNCHANGED networkVars

\* The install media is removed from the host.
RemoveMedia ==
    /\ install.dev /= {}
    /\ install.pc \notin {"returned", "rebooted"}
    /\ install' = [install EXCEPT !.dev = @ \ MediaNodes(install.sourceDevice)]
    /\ UNCHANGED networkVars

InstallNext ==
    \/ InstallGetSourceDevice
    \/ InstallGetTargetDevice
    \/ InstallCheckTarget
    \/ InstallStep
    \/ InstallWaitForRemoval
    \/ RemoveMedia

InstallSpec == InstallInit /\ [][InstallNext]_vars

(***************************************************************************)
(* Properties                                                              *)
(***************************************************************************)

Range(seq) == {seq[k] : k \in 1..Len(seq)}

IsPrefix(a, b) == Len(a) <= Len(b) /\ \A k \in 1..Len(a) : a[k] = b[k]

\* The steps of section 4.2, in the order the specification gives them.
ApplyOrder ==
    << "SetHostname", "UpdateEnvironment", "generateNetworkConfiguration",
       "Sleep", "udevadm trigger", "udevadm settle",
       "restart systemd-networkd", "restart systemd-timesyncd",
       "waitForNetworkRoutable" >>

InWait(r) == pc[r] \in {"waitCheck", "waitPoll"}

WaitBegun(r) == "waitForNetworkRoutable" \in Range(steps[r])

\* waitForNetworkRoutable returned nil / the timeout error.
WaitSucceeded(r) ==
    pc[r] = "done" /\ WaitBegun(r) /\ result[r] = SyncResponse(<<>>)

WaitTimedOut(r) ==
    pc[r] = "done" /\ WaitBegun(r) /\ result[r] = BadRequest(TimeoutError)

\* The devices the last poll cycle reported routable.
ReportedRoutable(r) == {<<t[1], t[2]>> : t \in {u \in report[r] : u[3] = "routable"}}

\* Every device of every category was reported routable in the last cycle.
AllQuorumMet(r) == Queries(newConfig[r]) \subseteq ReportedRoutable(r)

\* Every category with devices had one reported routable in the last cycle.
AnyQuorumMet(r) ==
    \A cat \in {"Interfaces", "Bonds", "VLANs"} :
        Len(newConfig[r][cat]) > 0 =>
            \E k \in 1..Len(newConfig[r][cat]) : <<cat, k>> \in ReportedRoutable(r)

QuorumMet(r) == IF requireAll[r] THEN AllQuorumMet(r) ELSE AnyQuorumMet(r)

TwoBonds(r) == Len(newConfig[r].Bonds) = 2

\* C1: with requireAll, the wait returns success only from a poll cycle in
\* which every device of every non-empty category was reported routable; a
\* cycle in which some device was not leaves the wait polling, and a wait
\* that ends otherwise ends with the timeout error (so with two bonds of
\* which one is never routable the result is the timeout error).
C1_RequireAllNeedsEveryDevice ==
    \A r \in Requests :
        (WaitBegun(r) /\ requireAll[r] /\ pc[r] \in {"waitCheck", "done"}) =>
            /\ WaitSucceeded(r) <=> AllQuorumMet(r)
            /\ (pc[r] = "done" /\ ~AllQuorumMet(r)) => WaitTimedOut(r)

C1_Witness ==
    \E r \in Requests :
        WaitSucceeded(r) /\ requireAll[r] /\ TwoBonds(r) /\ AllQuorumMet(r)

\* C2: without requireAll, a poll cycle returns success exactly when every
\* non-empty category had at least one device reported routable in it,
\* whatever the other devices of the category reported; every cycle that
\* did not return had a category with none.
C2_AnyQuorumSucceedsAtOnce ==
    \A r \in Requests :
        (WaitBegun(r) /\ ~requireAll[r] /\ pc[r] \in {"waitCheck", "done"}) =>
            (WaitSucceeded(r) <=> AnyQuorumMet(r))

C2_Witness ==
    \E r \in Requests :
        /\ WaitSucceeded(r) /\ ~requireAll[r] /\ TwoBonds(r)
        /\ <<"Bonds", 1>> \in ReportedRoutable(r)
        /\ <<"Bonds", 2, "degraded">> \in report[r]

\* C3 (as claimed): an apply started by a PUT or PATCH waits with
\* requireAll = false, whatever seed the host was booted with.
C3_RestWaitsWithAnyQuorum ==
    \A r \in Requests : InWait(r) => ~requireAll[r]

\* The call of ApplyNetworkConfiguration is between its first step and its
\* return.
InApply(r) == steps[r] /= <<>> /\ pc[r] /= "done"

\* C4 (as claimed): while one call of ApplyNetworkConfiguration is between
\* its first step and its return, no other call is.
C4_NoInterleaving ==
    \A r1, r2 \in Requests : (InApply(r1) /\ InApply(r2)) => r1 = r2

\* C5 (as claimed): once the context is cancelled the loop returns in the
\* current or the next iteration: at most one poll cycle is made with a
\* cancelled context.
C5_CancellationEndsTheWait ==
    \A r \in Requests : pollsCancelled[r] <= 1

\* C6: the wait always terminates, and it returns the timeout error only
\* when no poll cycle it made satisfied the policy: every cycle after which
\* the loop went on, and the last one before a timeout, did not satisfy it.
C6_WaitTerminates ==
    /\ \A r \in Requests : InWait(r) ~> (WaitSucceeded(r) \/ WaitTimedOut(r))
    /\ [](\A r \in Requests :
            (pc[r] = "waitCheck" \/ WaitTimedOut(r)) => ~QuorumMet(r))

C6_Witness ==
    \E r \in Requests : WaitTimedOut(r) /\ report[r] /= {}

C8_StepsInOrder ==
    \A r \in Sequential :
        /\ IsPrefix(steps[r], ApplyOrder)
        /\ "restart systemd-networkd" \in Range(steps[r]) =>
              /\ "generateNetworkConfiguration" \in Range(steps[r])
              /\ host.dir = HostFilesOf(newConfig[r]).dir
        /\ InWait(r) =>
              {"restart systemd-networkd", "restart systemd-timesyncd"}
                  \subseteq Range(steps[r])

C8_Witness ==
    \E r \in Sequential : InWait(r) /\ steps[r] = ApplyOrder

\* The host state the steps before the k-th step of ApplyOrder leave.
EffectsKept(r, k) ==
    /\ k > 1 => hostname = TargetHostname(newConfig[r])
    /\ k > 2 => environment = newConfig[r].Proxy
    /\ k > 3 => host.dir = HostFilesOf(newConfig[r]).dir

\* C9: when a step fails, its error is what the call returns, the step is
\* the last one made (no later step, no second attempt), and what the
\* earlier steps did is left in place.
C9_ShortCircuit ==
    \A r \in Sequential :
        \A k \in 1..(Len(ApplyOrder) - 1) :
            err[r] = ApplyOrder[k] \o " failed" =>
                /\ pc[r] = "done"
                /\ result[r] = BadRequest(err[r])
                /\ steps[r] = SubSeq(ApplyOrder, 1, k)
                /\ EffectsKept(r, k)

C9_Witness ==
    \E r \in Sequential :
        /\ err[r] = "udevadm settle failed"
        /\ host /= HostFilesOf(CfgMixed)
        /\ pc[r] = "done"

\* The directory holds exactly the artifacts generated from networkCfg.
HoldsExactly(dir, networkCfg) ==
    LET files == ArtifactFiles(networkCfg) IN
    /\ DOMAIN dir = {files[k].Name : k \in 1..Len(files)}
    /\ \A k \in 1..Len(files) : dir[files[k].Name] = files[k].Contents

GenerateSucceeded(r) ==
    /\ "generateNetworkConfiguration" \in Range(steps[r])
    /\ err[r] /= "generateNetworkConfiguration failed"

\* C10: after a successful generateNetworkConfiguration the directory
\* holds exactly the artifacts of the configuration of that call, whatever
\* the calls before it wrote.
C10_DirectoryHoldsLastGeneration ==
    \A r \in Sequential :
        GenerateSucceeded(r) => HoldsExactly(host.dir, newConfig[r])

\* The host booted with bond1; the last call generated a configuration
\* without bonds, and the artifacts of bond1 are gone.
C10_Witness ==
    \E r \in Sequential :
        /\ GenerateSucceeded(r)
        /\ Len(newConfig[r].Bonds) = 0
        /\ BondNetdevFile(BondB).Name \notin DOMAIN host.dir
        /\ host.dir /= EmptyDir

\* The configuration of the call names at least one timeserver.
HasTimeservers(networkCfg) ==
    networkCfg.NTP /= <<>> /\ Len(networkCfg.NTP[1].Timeservers) > 0

\* C11 (as claimed): after a successful generateNetworkConfiguration the
\* time-sync file exists if and only if the configuration has a timeserver,
\* and then holds the new server list; a file left by an earlier apply is
\* gone when NTP is absent or names no timeserver.
C11_TimesyncIffTimeservers ==
    \A r \in Sequential :
        GenerateSucceeded(r) =>
            /\ host.timesync /= <<>> <=> HasTimeservers(newConfig[r])
            /\ HasTimeservers(newConfig[r]) =>
                  host.timesync =
                      << <<"[Time]", "FallbackNTP="
                              \o JoinSpace(newConfig[r].NTP[1].Timeservers)>> >>

\* The handler of r returns from RestDecode with a client error.
Rejected(r) ==
    pc[r] = "idle" /\ pc'[r] = "done" /\ result'[r].status = "Bad Request"

\* C12: a PUT or PATCH whose resulting configuration has no interface, no
\* bond and no VLAN is answered with a client error, leaves the active
\* configuration and the host alone and makes no apply step; a call of
\* ApplyNetworkConfiguration is only ever made with a configuration that
\* has a device.
C12_NoDevicesRejected ==
    /\ [](\A r \in Requests :
            /\ pc[r] \notin {"idle", "done"} =>
                  ~NetworkConfigHasEmptyDevices(newConfig[r])
            /\ result[r].error = NoDevicesError =>
                  result[r].status = "Bad Request" /\ steps[r] = <<>>)
    /\ [][\A r \in Requests :
            (Rejected(r) /\ result'[r].error = NoDevicesError) =>
                /\ active' = active
                /\ hostVars' = hostVars
                /\ steps'[r] = <<>>]_vars

C12_Witness ==
    \E r \in Requests :
        pc[r] = "done" /\ result[r] = BadRequest(NoDevicesError)

\* C13: when the apply of a PUT or PATCH fails at a step or times out, the
\* response is a client error carrying that error and the active
\* configuration is the attempted one; it stays so when the handler has
\* returned, and a GET answers with the active configuration.
C13_FailedApplyKeepsAttempted ==
    /\ [](\A r \in Sequential :
            (pc[r] = "done" /\ err[r] /= "") =>
                /\ result[r] = BadRequest(err[r])
                /\ active = newConfig[r])
    /\ [][\A r \in Sequential :
            /\ (pc[r] = "done" /\ pc'[r] = "idle") => active' = active
            /\ (pc[r] = "idle" /\ pc'[r] = "done"
                    /\ result'[r].status = "Success") =>
                  result'[r].metadata = <<active>>]_vars

\* A timed-out apply of a configuration other than the one booted with.
C13_Witness ==
    \E r \in Sequential :
        /\ WaitTimedOut(r)
        /\ err[r] = TimeoutError
        /\ active = newConfig[r]
        /\ active \notin BootConfigs

HasPrefix(line, prefix) ==
    Len(line) >= Len(prefix) /\ SubSeq(line, 1, Len(prefix)) = prefix

\* The lines of a file that start with prefix, in order.
LinesWithPrefix(contents, prefix) ==
    SelectSeq(contents, LAMBDA line : HasPrefix(line, prefix))

\* The file of a sequence of files that has the name.
FileNamed(files, name) ==
    files[CHOOSE k \in 1..Len(files) : files[k].Name = name]

\* The line that follows the section header in a file.
LineAfter(contents, header) ==
    contents[1 + CHOOSE k \in 1..Len(contents) : contents[k] = header]

\* The runs made so far.
Runs == 1..Len(artifacts)

\* The addressing network file of every device of a configuration, with the
\* address list of the device.
DeviceFiles(networkCfg) ==
    {<<"20-" \o networkCfg.Interfaces[k].Name \o ".network",
       networkCfg.Interfaces[k].Addresses>> : k \in 1..Len(networkCfg.Interfaces)}
    \cup {<<"21-" \o networkCfg.Bonds[k].Name \o ".network",
            networkCfg.Bonds[k].Addresses>> : k \in 1..Len(networkCfg.Bonds)}
    \cup {<<"22-vl" \o networkCfg.VLANs[k].Name \o ".network",
            networkCfg.VLANs[k].Addresses>> : k \in 1..Len(networkCfg.VLANs)}

\* C15 (as claimed): the 22- network file of a VLAN matches the device its
\* 12- netdev file defines (not the parent): the Name of its [Match]
\* section is the Name of the [NetDev] section.
C15_VlanNetworkBindsVlanDevice ==
    \A n \in Runs : \A k \in 1..Len(genCfg.VLANs) :
        LET v == genCfg.VLANs[k]
            netdev == FileNamed(artifacts[n].netdevs, "12-vl" \o v.Name \o ".netdev")
            network == FileNamed(artifacts[n].networks, "22-vl" \o v.Name \o ".network")
        IN  /\ LineAfter(network.Contents, "[Match]")
                  = LineAfter(netdev.Contents, "[NetDev]")
            /\ LineAfter(network.Contents, "[Match]") /= "Name=" \o v.Parent

\* The DHCP line the specification gives for an address list.
DhcpLineFor(addresses) ==
    IF HasToken(addresses, "dhcp4") /\ HasToken(addresses, "dhcp6") THEN <<"DHCP=yes">>
    ELSE IF HasToken(addresses, "dhcp4") THEN <<"DHCP=ipv4">>
    ELSE IF HasToken(addresses, "dhcp6") THEN <<"DHCP=ipv6">>
    ELSE <<>>

\* C16: in the network file of a device, the DHCP= lines are the one line
\* the address list calls for (none without dhcp4 and dhcp6), the
\* IPv6AcceptRA= line is true exactly with slaac, and the Address= lines are
\* the tokens other than dhcp4, dhcp6 and slaac, verbatim, one line each, in
\* input order.
C16_AddressTokens ==
    \A n \in Runs : \A df \in DeviceFiles(genCfg) :
        LET c == FileNamed(artifacts[n].networks, df[1]).Contents
            others == SelectSeq(df[2], LAMBDA a : a \notin {"dhcp4", "dhcp6", "slaac"})
        IN  /\ LinesWithPrefix(c, "DHCP=") = DhcpLineFor(df[2])
            /\ LinesWithPrefix(c, "IPv6AcceptRA=") =
                  <<"IPv6AcceptRA=" \o FormatBool(HasToken(df[2], "slaac"))>>
            /\ LinesWithPrefix(c, "Address=") =
                  [j \in 1..Len(others) |-> "Address=" \o others[j]]

\* An interface with dhcp6, a static address and dhcp4, in that order.
C16_Witness ==
    /\ Len(artifacts) > 0
    /\ Len(genCfg.Interfaces) = 1
    /\ genCfg.Interfaces[1].Addresses = <<"dhcp6", "192.0.2.5/24", "dhcp4">>
    /\ LinesWithPrefix(artifacts[1].networks[1].Contents, "DHCP=") = <<"DHCP=yes">>

\* C17: the network file of a device with no address holds
\* LinkLocalAddressing=no and ConfigureWithoutCarrier=yes and not
\* LinkLocalAddressing=ipv6; that of a device with addresses holds
\* LinkLocalAddressing=ipv6 and neither of the other two.
C17_LinkLocalAddressing ==
    \A n \in Runs : \A df \in DeviceFiles(genCfg) :
        LET lines == Range(FileNamed(artifacts[n].networks, df[1]).Contents)
        IN  IF Len(df[2]) = 0
            THEN /\ "LinkLocalAddressing=no" \in lines
                 /\ "ConfigureWithoutCarrier=yes" \in lines
                 /\ "LinkLocalAddressing=ipv6" \notin lines
            ELSE /\ "LinkLocalAddressing=ipv6" \in lines
                 /\ "LinkLocalAddressing=no" \notin lines
                 /\ "ConfigureWithoutCarrier=yes" \notin lines

\* A bond without addresses next to one with an address.
C17_Witness ==
    /\ Len(artifacts) > 0
    /\ genCfg.Bonds = <<BondA, BondB>>
    /\ "ConfigureWithoutCarrier=yes" \in
          Range(FileNamed(artifacts[1].networks, "21-bond1.network").Contents)
    /\ "LinkLocalAddressing=ipv6" \in
          Range(FileNamed(artifacts[1].networks, "21-bond0.network").Contents)

\* The characters of file names, in byte order.
ByteOrder == "-.0123456789:ABCDEFGHIJKLMNOPQRSTUVWXYZabcdefghijklmnopqrstuvwxyz"

ByteRank(c) == CHOOSE k \in 1..Len(ByteOrder) : SubSeq(ByteOrder, k, k) = c

\* a sorts before b, byte by byte.
RECURSIVE LexLess(_, _)
LexLess(a, b) ==
    IF Len(b) = 0 THEN FALSE
    ELSE IF Len(a) = 0 THEN TRUE
    ELSE LET x == ByteRank(SubSeq(a, 1, 1))
             y == ByteRank(SubSeq(b, 1, 1))
         IN  IF x /= y THEN x < y
             ELSE LexLess(SubSeq(a, 2, Len(a)), SubSeq(b, 2, Len(b)))

NamesOf(files) == {files[k].Name : k \in 1..Len(files)}

\* The members of the bonds of a configuration: <<bond, index from 1>>.
BondMembers(networkCfg) ==
    UNION {{<<b, m>> : m \in 1..Len(b.Members)} : b \in Range(networkCfg.Bonds)}

\* The file names section 4.1 of the specification gives for a
\* configuration: links, netdevs, networks.
ExpectedLinkNames(networkCfg) ==
    {"00-en" \o StrippedHwaddr(i.Hwaddr) \o ".link" : i \in Range(networkCfg.Interfaces)}
    \cup {"01-en" \o StrippedHwaddr(bm[1].Members[bm[2]]) \o ".link" :
              bm \in BondMembers(networkCfg)}

ExpectedNetdevNames(networkCfg) ==
    {"10-br" \o StrippedHwaddr(i.Hwaddr) \o ".netdev" : i \in Range(networkCfg.Interfaces)}
    \cup {"11-bn" \o StrippedHwaddr(b.Hwaddr) \o ".netdev" : b \in Range(networkCfg.Bonds)}
    \cup {"11-br" \o StrippedHwaddr(b.Hwaddr) \o ".netdev" : b \in Range(networkCfg.Bonds)}
    \cup {"12-vl" \o v.Name \o ".netdev" : v \in Range(networkCfg.VLANs)}

ExpectedNetworkNames(networkCfg) ==
    {"20-" \o i.Name \o ".network" : i \in Range(networkCfg.Interfaces)}
    \cup {"20-br" \o StrippedHwaddr(i.Hwaddr) \o ".network" : i \in Range(networkCfg.Interfaces)}
    \cup {"21-" \o b.Name \o ".network" : b \in Range(networkCfg.Bonds)}
    \cup {"21-br" \o StrippedHwaddr(b.Hwaddr) \o ".network" : b \in Range(networkCfg.Bonds)}
    \cup {"21-bn" \o StrippedHwaddr(bm[1].Hwaddr) \o "-dev" \o ToString(bm[2] - 1)
              \o ".network" : bm \in BondMembers(networkCfg)}
    \cup {"22-vl" \o v.Name \o ".network" : v \in Range(networkCfg.VLANs)}

\* C18: the names of the generated files are exactly those of section 4.1,
\* one file each, and every link and netdev name sorts before every
\* network name.
C18_FilenameSet ==
    \A n \in Runs :
        LET run == artifacts[n]
            members == Cardinality(BondMembers(genCfg))
        IN  /\ NamesOf(run.links) = ExpectedLinkNames(genCfg)
            /\ Len(run.links) = Len(genCfg.Interfaces) + members
            /\ NamesOf(run.netdevs) = ExpectedNetdevNames(genCfg)
            /\ Len(run.netdevs) =
                  Len(genCfg.Interfaces) + 2 * Len(genCfg.Bonds) + Len(genCfg.VLANs)
            /\ NamesOf(run.networks) = ExpectedNetworkNames(genCfg)
            /\ Len(run.networks) =
                  2 * Len(genCfg.Interfaces) + 2 * Len(genCfg.Bonds) + members
                      + Len(genCfg.VLANs)
            /\ \A f \in NamesOf(run.links) \cup NamesOf(run.netdevs) :
                  \A g \in NamesOf(run.networks) : LexLess(f, g)

\* Two interfaces, two bonds (three members in all) and two VLANs.
C18_Witness ==
    /\ Len(artifacts) > 0
    /\ Len(genCfg.Interfaces) = 2 /\ Len(genCfg.Bonds) = 2 /\ Len(genCfg.VLANs) = 2
    /\ Len(artifacts[1].links) + Len(artifacts[1].netdevs)
          + Len(artifacts[1].networks) = 26
    /\ "21-bnaabbccddee10-dev1.network" \in NamesOf(artifacts[1].networks)

\* The artifacts of the one-interface example (hwaddr aa:bb:cc:dd:ee:ff,
\* name eth-main, addresses ["192.0.2.5/24"]) with the device renamed to
\* linkName.
ExampleArtifacts(linkName) ==
    \A n \in Runs :
        genCfg = CfgMain =>
            LET link == artifacts[n].links[1].Contents
                netdev == artifacts[n].netdevs[1].Contents
                network == FileNamed(artifacts[n].networks, "20-eth-main.network").Contents
            IN  /\ LineAfter(link, "[Match]") = "PermanentMACAddress=aa:bb:cc:dd:ee:ff"
                /\ LinesWithPrefix(link, "Name=") = <<"Name=" \o linkName>>
                /\ LineAfter(netdev, "[NetDev]") = "Name=eth-main"
                /\ "Kind=bridge" \in Range(netdev)
                /\ "Address=192.0.2.5/24" \in Range(network)
                /\ LinesWithPrefix(network, "DHCP=") = <<>>

\* C19 (as claimed): the example's link file renames the device to
\* eneabbccddeeff.
C19_ExampleAsClaimed == ExampleArtifacts("eneabbccddeeff")

\* C19 (amended): the example's link file renames the device to
\* enaabbccddeeff, "en" followed by the hwaddr lowercased with its colons
\* stripped; the rest of the example is as claimed.
C19_Example == ExampleArtifacts("enaabbccddeeff")

C19_Witness ==
    /\ genCfg = CfgMain
    /\ Len(artifacts) > 0
    /\ artifacts[1].links[1].Name = "00-enaabbccddeeff.link"

DeviceRouteFiles(networkCfg) ==
    {<<"20-" \o networkCfg.Interfaces[k].Name \o ".network",
       networkCfg.Interfaces[k].Routes>> : k \in 1..Len(networkCfg.Interfaces)}
    \cup {<<"21-" \o networkCfg.Bonds[k].Name \o ".network",
            networkCfg.Bonds[k].Routes>> : k \in 1..Len(networkCfg.Bonds)}
    \cup {<<"22-vl" \o networkCfg.VLANs[k].Name \o ".network",
            networkCfg.VLANs[k].Routes>> : k \in 1..Len(networkCfg.VLANs)}

\* The Gateway= value the specification gives for a via token.
GatewayFor(via) ==
    CASE via = "dhcp4" -> "_dhcp4"
      [] via = "slaac" -> "_ipv6ra"
      [] OTHER -> via

\* The positions of the [Route] headers of a file.
RouteHeaders(contents) == {k \in 1..Len(contents) : contents[k] = "[Route]"}

\* C21: the network file of a device with routes holds one [Route] block in
\* which every route, in input order, gives a Gateway= line (_dhcp4 for via
\* dhcp4, _ipv6ra for via slaac, the via itself otherwise) followed by
\* Destination=<to>, and no other Gateway= or Destination= line; the file of
\* a device without routes holds no [Route] block.
C21_RouteBlock ==
    \A n \in Runs : \A df \in DeviceRouteFiles(genCfg) :
        LET c == FileNamed(artifacts[n].networks, df[1]).Contents
            routes == df[2]
        IN  IF Len(routes) = 0
            THEN /\ RouteHeaders(c) = {}
                 /\ LinesWithPrefix(c, "Gateway=") = <<>>
                 /\ LinesWithPrefix(c, "Destination=") = <<>>
            ELSE \E h \in 1..Len(c) :
                 /\ RouteHeaders(c) = {h}
                 /\ h + 2 * Len(routes) <= Len(c)
                 /\ \A j \in 1..Len(routes) :
                        /\ c[h + 2 * j - 1] = "Gateway=" \o GatewayFor(routes[j].Via)
                        /\ c[h + 2 * j] = "Destination=" \o routes[j].To
                 /\ Len(LinesWithPrefix(c, "Gateway=")) = Len(routes)
                 /\ Len(LinesWithPrefix(c, "Destination=")) = Len(routes)

\* A bond with a static route followed by a dhcp4 route.
C21_Witness ==
    /\ Len(artifacts) > 0
    /\ Len(genCfg.Bonds) = 1
    /\ genCfg.Bonds[1].Routes = <<StaticRoute, DefaultRoute>>
    /\ LinesWithPrefix(artifacts[1].networks[1].Contents, "Gateway=")
          = <<"Gateway=192.0.2.1", "Gateway=_dhcp4">>

\* The hostname the specification gives for a configuration.
HostnameFor(networkCfg) ==
    IF networkCfg.DNS = <<>> THEN ""
    ELSE IF networkCfg.DNS[1].Hostname = "" THEN ""
    ELSE IF networkCfg.DNS[1].Domain = "" THEN networkCfg.DNS[1].Hostname
    ELSE networkCfg.DNS[1].Hostname \o "." \o networkCfg.DNS[1].Domain

\* SetHostname has succeeded for the request in this step.
HostnameSet(r) ==
    pc[r] = "SetHostname" /\ pc'[r] = StepAfter("SetHostname")

\* C22: the hostname that SetHostname sets is dns.hostname "." dns.domain
\* when both are set, dns.hostname alone without a domain, and the empty
\* string without a DNS block or with an empty hostname, domain or not.
C22_TargetHostname ==
    [][\A r \in Requests : HostnameSet(r) => hostname' = HostnameFor(newConfig[r])]_vars

\* The hostname was reset for a configuration with a domain and no hostname.
C22_Witness ==
    \E r \in Requests :
        /\ "SetHostname" \in Range(steps[r]) /\ err[r] = ""
        /\ newConfig[r].DNS /= <<>>
        /\ newConfig[r].DNS[1].Hostname = "" /\ newConfig[r].DNS[1].Domain /= ""
        /\ hostname = ""

\* The device names the netdev files of a configuration define: what
\* follows "Name=" on the line after [NetDev].
NetdevNames(networkCfg) ==
    LET files == generateNetdevFileContents(networkCfg)
    IN  {LET line == LineAfter(files[k].Contents, "[NetDev]")
         IN  SubSeq(line, Len("Name=") + 1, Len(line)) : k \in 1..Len(files)}

\* C23 (as claimed): every name a poll cycle asked networkctl about is the
\* name of a device that a netdev file generated from the same
\* configuration defines.
C23_QueriedNamesAreGenerated ==
    \A r \in Requests : \A t \in report[r] :
        QueryName(newConfig[r], <<t[1], t[2]>>) \in NetdevNames(newConfig[r])

\* The logical names of the devices of a configuration, in order.
DeviceNames(networkCfg) ==
    [k \in 1..Len(networkCfg.Interfaces) |-> networkCfg.Interfaces[k].Name]
    \o [k \in 1..Len(networkCfg.Bonds) |-> networkCfg.Bonds[k].Name]
    \o [k \in 1..Len(networkCfg.VLANs) |-> networkCfg.VLANs[k].Name]

\* The hardware addresses of a configuration, in order and as the file
\* names carry them: interfaces, then every bond followed by its members.
DeviceHwaddrs(networkCfg) ==
    [k \in 1..Len(networkCfg.Interfaces) |->
        StrippedHwaddr(networkCfg.Interfaces[k].Hwaddr)]
    \o Flatten([k \in 1..Len(networkCfg.Bonds) |->
           <<StrippedHwaddr(networkCfg.Bonds[k].Hwaddr)>>
           \o [m \in 1..Len(networkCfg.Bonds[k].Members) |->
                  StrippedHwaddr(networkCfg.Bonds[k].Members[m])]])

\* No element occurs twice in the sequence.
Distinct(seq) == \A a, b \in 1..Len(seq) : a /= b => seq[a] /= seq[b]

\* C24 (as claimed): when the device names of a configuration are unique
\* and its hardware addresses are unique, the names of the files the
\* generators return in one run are pairwise distinct.
C24_FilenamesDistinct ==
    \A n \in Runs :
        (Distinct(DeviceNames(genCfg)) /\ Distinct(DeviceHwaddrs(genCfg)))
        => LET files == artifacts[n].links \o artifacts[n].netdevs
                           \o artifacts[n].networks
           IN  Distinct([k \in 1..Len(files) |-> files[k].Name])

\* The devices whose query failed in the last poll cycle.
FailedQueries(r) == {<<t[1], t[2]>> : t \in {u \in report[r] : u[3] = "error"}}

\* C25: a poll cycle in which a query failed raises no error; it returns
\* success when the devices reported routable (the failed ones not among
\* them) satisfy the policy, and otherwise leaves the wait polling; and a
\* wait never ends with an error other than the timeout error.
C25_FailedQueryIsNotRoutable ==
    /\ [](\A r \in Requests :
            (WaitBegun(r) /\ pc[r] = "done") => (WaitSucceeded(r) \/ WaitTimedOut(r)))
    /\ [][\A r \in Requests :
            (pc[r] = "waitPoll" /\ FailedQueries(r)' /= {}) =>
                /\ err'[r] = err[r]
                /\ IF QuorumMet(r)'
                   THEN pc'[r] = "done" /\ result'[r] = SyncResponse(<<>>)
                   ELSE pc'[r] = "waitCheck" /\ result'[r] = result[r]]_vars

\* With requireAll, the failed query of one bond kept the wait polling
\* though the other bond was routable.
C25_Witness ==
    \E r \in Requests :
        /\ pc[r] = "waitCheck" /\ requireAll[r]
        /\ <<"Bonds", 1, "error">> \in report[r]
        /\ <<"Bonds", 2, "routable">> \in report[r]

\* The target device has a partition table.
TargetHasTable ==
    install.sgdiskOutput = "No problems found. 2014 free sectors available."

\* The steps of performInstall in the order the specification gives.
ClaimedOrder ==
    << "swapoff -a", "unmount /boot/",
       "sgdisk -d 9", "sgdisk -d 10", "sgdisk -d 11",
       "sgdisk -R",
       "doCopy 1", "doCopy 2", "doCopy 3", "doCopy 4",
       "doCopy 5", "doCopy 6", "doCopy 7", "doCopy 8",
       "tar --delete install.json", "tar --delete install.yaml" >>

\* C26: with a partition table on the target and ForceInstall false no step
\* of performInstall runs and performInstall returns the partition-table
\* error; the steps that ran are, in order, the first steps of swapoff,
\* unmount, deletion of partitions 9 to 11, clone of the table, copy of
\* partitions 1 to 8 and removal of the install file, and every step but
\* the last one that ran succeeded.
C26_DestructiveStepsGuarded ==
    /\ (TargetHasTable /\ ~install.config.ForceInstall) =>
          /\ install.ran = <<>>
          /\ install.pc \in {"DoInstall", "getTargetDevice", "performInstall",
                             "returned"}
          /\ install.pc = "returned" => install.err /= ""
    /\ IsPrefix([k \in 1..Len(install.ran) |-> install.ran[k][1]], ClaimedOrder)
    /\ \A k \in 1..(Len(install.ran) - 1) : install.ran[k][2] /= "error"
    /\ install.pc \in Range(ClaimedOrder) =>
          install.pc = ClaimedOrder[Len(install.ran) + 1]

\* A forced install on a target with a partition table ran every step.
C26_Witness ==
    /\ TargetHasTable /\ install.config.ForceInstall
    /\ Len(install.ran) = Len(ClaimedOrder)
    /\ install.pc = "rebootUponDeviceRemoval"

\* getTargetDevice returned an error.
TargetRefused ==
    /\ install.pc = "returned" /\ install.targetDevice = ""
    /\ install.err \in {"lsblk failed", NoPotentialDevices, NotExactlyOneDevice,
                        NoTargetDevice}

\* C27: the device getTargetDevice returned is a listed device other than
\* the source device whose id-link contains the Target ID when a Target is
\* configured; and getTargetDevice returned an error when fewer than two
\* devices are listed, when no Target is configured and not exactly two
\* devices are listed, and when no listed device other than the source
\* matches the Target.
C27_TargetIsNotSource ==
    LET listed == PotentialTargets(install.lsblk)
        target == install.config.Target
        matching == {k \in 1..Len(listed) :
                        /\ listed[k].KName /= install.sourceDevice
                        /\ target /= <<>> => Contains(listed[k].ID, target[1].ID)}
    IN  /\ install.targetDevice /= "" =>
              /\ install.targetDevice /= install.sourceDevice
              /\ \E k \in matching : listed[k].KName = install.targetDevice
        /\ ( /\ install.pc \notin {"DoInstall", "getTargetDevice"}
             /\ install.err /= "getSourceDevice failed"
             /\ \/ Len(listed) < 2
                \/ target = <<>> /\ Len(listed) /= 2
                \/ matching = {} )
           => TargetRefused

\* The source device is listed first and matches the Target: the next
\* matching device was returned.
C27_Witness ==
    /\ install.sourceDevice = "/dev/nvme0n1"
    /\ install.config.Target = <<[ID |-> "Disk"]>>
    /\ Len(PotentialTargets(install.lsblk)) = 4
    /\ install.targetDevice = "/dev/sdb"

\* performInstall returned nil.
InstallSucceeded ==
    /\ Len(install.ran) = Len(ClaimedOrder)
    /\ install.ran[Len(install.ran)][2] /= "error"

\* C28: the reboot is triggered only after performInstall succeeded and
\* either ForceReboot is true or os.Stat reported the first partition of the
\* install device missing, the partition being gone from /dev; a pass of the loop that
\* found the partition keeps rebootUponDeviceRemoval waiting, and one whose
\* os.Stat failed otherwise makes it return the error without a reboot.
C28_RebootOnlyAfterRemoval ==
    /\ [](install.rebooted =>
             /\ InstallSucceeded
             /\ \/ install.config.ForceReboot
                \/ /\ install.lastStat = "ErrNotExist"
                   /\ FirstPartition[install.sourceDevice] \notin install.dev)
    /\ [][(install.pc = "rebootUponDeviceRemoval" /\ ~install.config.ForceReboot) =>
             /\ install.lastStat' = "exists" =>
                   /\ install.pc' = "rebootUponDeviceRemoval"
                   /\ ~install.rebooted'
             /\ install.lastStat' = "error" =>
                   /\ install.pc' = "returned"
                   /\ install.err' = "stat failed"
                   /\ ~install.rebooted']_vars

\* The partition was found once, then the media was removed and the host
\* rebooted.
C28_Witness ==
    /\ install.rebooted /\ ~install.config.ForceReboot
    /\ install.stats = 2
    /\ install.lastStat = "ErrNotExist"

=============================================================================
